---- MODULE Spec2Model ----
(***************************************************************************)
(* A model of the MCP clients and of the hotel server of this repository:  *)
(* the SSE frame decoder                                                   *)
(* and the HTTP request helper (universal_llm.py, universal.py,            *)
(* universal_llm2.py), the stdio JSON-RPC client (client.py) and the       *)
(* multi-server registry build of SimpleHTTPMCPClient.                     *)
(*                                                                         *)
(* Several specifications share the module.  Each one drives one           *)
(* component and keeps the variables of the others at their idle values:   *)
(*   SpecSse      _post_mcp_request on one HTTP response                   *)
(*   SpecPipe     MCPClientStdio._send against a peer process              *)
(*   SpecReg      connect_to_multiple_servers / connect_and_list, then     *)
(*                call_tool, create_openai_tools and cleanup               *)
(*   SpecCoerce   coerce_rolls on one value and one cache                  *)
(*   SpecSession  main of client.py: initialize, tools_list, tools_call    *)
(*   SpecChat     chat_with_tools calls and resets of one conversation     *)
(*   SpecAgent    runs of main of agent.py                                 *)
(*   SpecAgentFair  the same, the loop of main never halting midway        *)
(*   SpecHotel    the tools of the hotel server (hotel.py) on its tables   *)
(*   SpecWrap     wrap_sum_and_track_rolls and the tools it returns        *)
(***************************************************************************)
EXTENDS Integers, Sequences, FiniteSets, TLC

VARIABLES
    \* ---- HTTP helper (SpecSse) ----
    httpPc,         \* "idle" | "done"
    payload,        \* the JSON-RPC request posted: [id, method]
    response,       \* the HTTP response received for it
    events,         \* the events _parse_sse_events decoded (line 71)
    reply,          \* what _post_mcp_request returned
    \* ---- stdio client (SpecPipe) ----
    proc,           \* "none" | "running": self.proc
    self_id,        \* self._id
    pipePc,         \* "idle" | "reading": position inside _send
    req_id,         \* req_id of the _send in progress
    stdin,          \* ids of the requests written to the peer, in order
    stdout,         \* lines the peer wrote and the client has not read yet
    stdoutClosed,   \* the peer closed its output stream
    stderr,         \* unread text of the peer's error stream
    stderrReads,    \* number of proc.stderr.read() calls made
    outcomes,       \* how each _send ended, in order
    lastDropped,    \* the last line the _send in progress read and dropped
    \* ---- registry (SpecReg) ----
    variant,        \* "llm" (connect_to_multiple_servers) | "llm2" (connect_and_list)
    server_paths,   \* the configured endpoints, in order
    task,           \* per endpoint index: "new" | "posted" | "done"
    data,           \* per endpoint index: the reply its task received
    mapping,        \* the result map, an insertion-ordered dict: [keys, val]
    sessions,       \* self._sessions, an insertion-ordered dict url -> client
    clients,        \* number of httpx.AsyncClient objects created
    gather,         \* "running" | "returned" | "raised"
    returned,       \* the map as it was when the build returned
    sent,           \* per url: ids of the requests posted on its connection
    writes,         \* per url: number of assignments mapping[url] = ...
    sessionWrites,  \* per url: number of assignments self._sessions[url] = ...
    calls,          \* number of call_tool calls made
    called,         \* the last call_tool: [url, posted, raised, result]
    openai_tools,   \* the catalog create_openai_tools built from the map
    closed,         \* the httpx.AsyncClient objects on which aclose() ran
    cleaned,        \* cleanup() has run
    \* ---- argument repair (SpecCoerce) ----
    coercePc,       \* "idle" | "done"
    rolls_value,    \* the `value` argument of coerce_rolls
    last_rolls,     \* the `last_rolls` argument of coerce_rolls
    coerced,        \* how the call ended: [raised, out]
    \* ---- stdio session (SpecSession) ----
    sessPc,         \* position in main of client.py
    wire,           \* the messages written to the peer, in order
    init_reply,     \* what _send("initialize") returned
    init_res,       \* what initialize() returned
    notified,       \* "none" | "sent" | "raised": how _notify ended
    attempt,        \* index of the next attempt of tools_list
    last_err,       \* tools_list's last_err: 0 (None) or the attempt that raised
    list_log,       \* what _send gave to each attempt of tools_list
    listed,         \* how tools_list ended: [state, tools, by]
    toolCalls,      \* number of tools_call calls made
    \* ---- chat_with_tools (SpecChat) ----
    chatPc,         \* "start" | "tools" | "returned" | "aborted"
    snapshot,       \* server_mapping, the registry snapshot of the chat
    chat_tools,     \* openai_tools, the catalog made from the snapshot
    conversation_history,   \* the transcript
    tool_calls,     \* message.tool_calls of the LLM reply
    call_ix,        \* position in tool_calls of the next call to handle
    in_flight,      \* positions of the calls dispatched and not yet returned
    dispatched,     \* the call_tool calls made: [ix, url, tool]
    llm_sent,       \* the transcripts sent to the LLM, in order
    llm_tools,      \* the `tools` argument of each LLM request, in order
    llm_replies,    \* how each LLM request ended: [ok, content, calls]
    chat_output,    \* what the last chat_with_tools call gave its caller
    turn,           \* number of chat_with_tools calls made
    reset_turn,     \* value of `turn` at the last reset_conversation
    reset_calls,    \* number of tool calls asked for before that reset
    call_base,      \* number of tool calls asked for in earlier turns
    \* ---- agent loop (SpecAgent) ----
    agPc,           \* "tools" | "in_call" | "done" | "crashed"
    messages,       \* the transcript
    agent_calls,    \* tool_calls of the last reply
    ag_ix,          \* position in agent_calls of the next call to handle
    rolls_memory,   \* main's last_rolls
    executed,       \* the mcp.call_tool calls made: [id, fn, rolls]
    handled,        \* number of tool calls asked for so far
    ollama_sent,    \* the transcripts sent to the LLM, in order
    repair_failed,  \* ids of the calls whose coerce_rolls raised
    call_failures,  \* ids of the calls whose mcp.call_tool raised
    outs,           \* `out` of each mcp.call_tool that returned: [id, fn, out]
    ollama_calls,   \* each ollama_chat call: [tools, ok, calls]
    runs,           \* number of runs of main started after the first
    \* ---- hotel server (SpecHotel) ----
    rooms,          \* the rooms table: room_id -> [room_number, capacity, status]
    users,          \* the users table, user_id its index
    reservations,   \* the reservations table, reservation_id its index
    lock,           \* the thread that holds _lock, or NoThread
    hcalls,         \* thread -> the tool call it runs: [pc, op, a, res, rows]
    hotel_calls,    \* tool calls begun
    \* ---- LangChain tool wrappers (SpecWrap) ----
    wrapPc,         \* "start" | "wrapped"
    wrap_tools,     \* the names of the tools given to wrap_sum_and_track_rolls
    wrapped,        \* the tools it returned: [name, kind, tool_obj]
    loop_t,         \* the variable t of wrap_sum_and_track_rolls
    last_rolls_box, \* last_rolls_box["value"]
    invoked         \* each invocation of a returned tool: [wrapper, called]

sseVars  == <<httpPc, payload, response, events, reply>>
pipeVars == <<proc, self_id, pipePc, req_id, stdin, stdout, stdoutClosed,
              stderr, stderrReads, outcomes, lastDropped>>
regVars  == <<variant, server_paths, task, data, mapping, sessions, clients,
              gather, returned, sent, writes, sessionWrites, calls, called,
              openai_tools, closed, cleaned>>
coerceVars == <<coercePc, rolls_value, last_rolls, coerced>>
sessVars == <<sessPc, wire, init_reply, init_res, notified, attempt,
              last_err, list_log, listed, toolCalls>>
chatVars == <<chatPc, snapshot, chat_tools, conversation_history, tool_calls,
              call_ix, in_flight, dispatched, llm_sent, llm_tools,
              llm_replies, chat_output, turn, reset_turn, reset_calls,
              call_base>>
agentVars == <<agPc, messages, agent_calls, ag_ix, rolls_memory, executed,
               handled, ollama_sent, repair_failed, call_failures, outs,
               ollama_calls, runs>>
restVars == <<coerceVars, sessVars, chatVars, agentVars>>
hotelVars == <<rooms, users, reservations, lock, hcalls, hotel_calls>>
wrapVars == <<wrapPc, wrap_tools, wrapped, loop_t, last_rolls_box, invoked>>
moreVars == <<hotelVars, wrapVars>>
vars     == <<sseVars, pipeVars, regVars, restVars, moreVars>>

(***************************************************************************)
(* Bounds of the model.                                                    *)
(***************************************************************************)
MaxLines   == 4     \* lines of one SSE response body
MaxReq     == 2     \* requests one stdio client sends
MaxQueue   == 1     \* unread lines in the peer's output stream
MaxServers == 2     \* configured endpoints
MaxCalls   == 1     \* call_tool calls after the registry build
MaxRolls   == 3     \* items of a list or of a list literal given as `value`
MaxCache   == 1     \* items of the cached list
MaxToolCalls == 2   \* tool calls asked of chat_with_tools in one run, each
                    \* chat_with_tools call after the first counting as one
MaxAgentCalls == 2  \* tool calls the LLM asks the agent for in one run
MaxRuns    == 1     \* runs of main after the first

(***************************************************************************)
(* JSON text and JSON values.                                              *)
(*                                                                         *)
(* A text is a sequence of lexemes <<kind, key, value>>:                   *)
(*   <<"{","",0>>  <<"}","",0>>   the braces of an object                  *)
(*   <<"kv",k,v>>                 the member "k": v                        *)
(*   <<"num","",v>>               the number v                             *)
(*   <<"bad","",0>>               text that is not JSON                    *)
(* Line breaks between lexemes are JSON whitespace, so joining texts with  *)
(* "\n" is concatenation.  A value is [t, kv]: t = "obj" with kv the set   *)
(* of <<key, value>> members, t = "num" with kv = {<<"", v>>}.             *)
(***************************************************************************)
LB      == <<"{", "", 0>>
RB      == <<"}", "", 0>>
KV(k,v) == <<"kv", k, v>>
NUM(v)  == <<"num", "", v>>
BAD     == <<"bad", "", 0>>

ParseFail  == [t |-> "fail", kv |-> {}]
Obj(pairs) == [t |-> "obj", kv |-> pairs]
Num(v)     == [t |-> "num", kv |-> {<<"", v>>}]

\* json.loads: the value of a text, ParseFail when it raises.  A repeated
\* member name keeps its last value, as Python's decoder does.
json_loads(text) ==
    LET n == Len(text) IN
    IF n = 1 /\ text[1][1] = "num" THEN Num(text[1][3])
    ELSE IF /\ n >= 2
            /\ text[1] = LB
            /\ text[n] = RB
            /\ \A i \in 2..(n-1) : text[i][1] = "kv"
         THEN Obj({ <<text[i][2], text[i][3]>> : i \in
                      { j \in 2..(n-1) :
                          \A m \in (j+1)..(n-1) : text[m][2] # text[j][2] } })
         ELSE ParseFail

IsDict(v)     == v.t = "obj"
HasKey(v, k)  == \E p \in v.kv : p[1] = k
Get(v, k, d)  == IF HasKey(v, k) THEN (CHOOSE p \in v.kv : p[1] = k)[2] ELSE d

(***************************************************************************)
(* Response bodies.  A line is <<"data", text>> ("data:" followed by the   *)
(* text) or <<"raw", text>> (the text alone; the empty text is a blank     *)
(* line).                                                                  *)
(***************************************************************************)
DataLine(text) == <<"data", text>>
RawLine(text)  == <<"raw", text>>
BlankLine      == RawLine(<< >>)

RECURSIVE Concat(_)
Concat(texts) ==
    IF texts = << >> THEN << >> ELSE Head(texts) \o Concat(Tail(texts))

\* _parse_sse_events: the scan over text.splitlines(), with the events
\* decoded so far and the buffer of "data:" payloads of the open event.
RECURSIVE sse_scan(_, _, _)
sse_flush(evs, buf) ==
    IF buf = << >> THEN evs
    ELSE LET v == json_loads(Concat(buf)) IN
         IF v = ParseFail THEN evs ELSE Append(evs, v)

\* sse_scan without lines 50-55: the buffer left at the end of the input is
\* dropped instead of being emitted as a final event.
sse_scan_no_final_flush(lines, evs, buf) ==
    IF lines = << >> THEN evs
    ELSE LET line == Head(lines) IN
         IF line[1] = "data"
         THEN sse_scan(Tail(lines), evs, Append(buf, line[2]))
         ELSE IF line[2] = << >>
              THEN sse_scan(Tail(lines), sse_flush(evs, buf), << >>)
              ELSE sse_scan(Tail(lines), evs, buf)

sse_scan(lines, evs, buf) ==
    IF lines = << >> THEN sse_flush(evs, buf)
    ELSE LET line == Head(lines) IN
         IF line[1] = "data"
         THEN sse_scan(Tail(lines), evs, Append(buf, line[2]))
         ELSE IF line[2] = << >>
              THEN sse_scan(Tail(lines), sse_flush(evs, buf), << >>)
              ELSE sse_scan(Tail(lines), evs, buf)

_parse_sse_events(text) == sse_scan(text, << >>, << >>)

(***************************************************************************)
(* _post_mcp_request.  The synthesized error objects carry the same code   *)
(* -32603 in the source and differ by their message; the model tells them  *)
(* apart by the value of the "error" member.                               *)
(***************************************************************************)
ErrNoResult   == -1     \* "No result in SSE stream"
ErrCtype      == -2     \* "Unexpected content-type: ..."
ErrRequest    == -3     \* "Request error: ..."
ErrUnexpected == -4     \* "Unexpected error: ..."
ErrorObj(e)   == Obj({<<"error", e>>})

\* for ev in reversed(evs): the first event, from the end, with a
\* "result" or an "error" key.  `"result" in ev` raises TypeError on a
\* number; the handler of line 92 turns that into an error object.
RECURSIVE sse_select(_, _)
sse_select(evs, i) ==
    IF i = 0 THEN ErrorObj(ErrNoResult)
    ELSE IF ~IsDict(evs[i]) THEN ErrorObj(ErrUnexpected)
    ELSE IF HasKey(evs[i], "result") \/ HasKey(evs[i], "error")
         THEN evs[i]
         ELSE sse_select(evs, i - 1)

\* r.json(): the whole body as one JSON text.
response_json(resp) ==
    IF \E i \in 1..Len(resp.text) : resp.text[i][1] = "data"
    THEN ParseFail
    ELSE json_loads(Concat([i \in 1..Len(resp.text) |-> resp.text[i][2]]))

_post_mcp_request(resp) ==
    CASE resp.kind = "request_error" -> ErrorObj(ErrRequest)
      [] resp.kind = "status_error"  -> ErrorObj(resp.status)
      [] OTHER ->
            IF resp.ctype = "text/event-stream"
            THEN LET evs == _parse_sse_events(resp.text) IN
                 sse_select(evs, Len(evs))
            ELSE LET v == response_json(resp) IN
                 IF v # ParseFail THEN v
                 ELSE IF resp.ctype = "application/json"
                      THEN ErrorObj(ErrUnexpected)
                      ELSE ErrorObj(ErrCtype)

(***************************************************************************)
(* SpecSse: one request through _post_mcp_request.                         *)
(***************************************************************************)
ResultEvent(i, v) == <<LB, KV("id", i), KV("result", v), RB>>
ErrorEvent(i, e)  == <<LB, KV("id", i), KV("error", e), RB>>
StatusEvent       == <<LB, KV("status", 0), RB>>
OpenHalf          == <<LB, KV("id", 1)>>
CloseHalf         == <<KV("result", 7), RB>>

\* Payloads of "data:" lines: whole objects, the two halves of an object
\* sent on two lines, a number, and text that is not JSON.
DataTexts ==
    { ResultEvent(1, 7), ResultEvent(2, 8), ErrorEvent(1, 9), StatusEvent,
      OpenHalf, CloseHalf, <<NUM(5)>>, <<BAD>> }

\* The lines of an event-stream body: "data:" lines, blank lines and other
\* lines ("event: message", comments).
SseLines == { DataLine(t) : t \in DataTexts } \cup { BlankLine, RawLine(<<BAD>>) }

SseBodies == UNION { [1..n -> SseLines] : n \in 0..MaxLines }

\* Bodies of plain replies: one document, a document printed on two lines,
\* a number, something that is not JSON, nothing.
JsonBodies ==
    { <<RawLine(ResultEvent(1, 7))>>, <<RawLine(ResultEvent(2, 8))>>,
      <<RawLine(ErrorEvent(1, 9))>>, <<RawLine(OpenHalf), RawLine(CloseHalf)>>,
      <<RawLine(<<NUM(5)>>)>>, <<RawLine(<<BAD>>)>>, << >> }

OkResponse(ctype, text) ==
    [kind |-> "ok", status |-> 200, ctype |-> ctype, text |-> text]
StatusError(status) ==
    [kind |-> "status_error", status |-> status, ctype |-> "", text |-> << >>]
RequestError ==
    [kind |-> "request_error", status |-> 0, ctype |-> "", text |-> << >>]

Responses ==
    { OkResponse("text/event-stream", b) : b \in SseBodies }
    \cup { OkResponse(c, b) : c \in {"application/json", "text/plain"},
                               b \in JsonBodies }
    \cup { StatusError(s) : s \in {404, 500} }
    \cup { RequestError }

Request(i, m) == [id |-> i, method |-> m]
Requests      == { Request(1, "tools/call"), Request(2, "tools/list") }
NoRequest     == Request(0, "")

InitSse ==
    /\ httpPc = "idle"
    /\ payload = NoRequest
    /\ response = RequestError
    /\ events = << >>
    /\ reply = ParseFail

\* await _post_mcp_request(client, url, payload)
PostMcpRequest ==
    /\ httpPc = "idle"
    /\ \E p \in Requests, r \in Responses :
          /\ payload' = p
          /\ response' = r
          /\ events' = IF r.kind = "ok" /\ r.ctype = "text/event-stream"
                       THEN _parse_sse_events(r.text) ELSE << >>
          /\ reply' = _post_mcp_request(r)
    /\ httpPc' = "done"
    /\ UNCHANGED <<pipeVars, regVars, restVars, moreVars>>

(***************************************************************************)
(* SpecPipe: MCPClientStdio (client.py) and the peer process behind its    *)
(* pipes.  A line of the peer's output is [text, for]: its JSON text and   *)
(* the position in stdin of the request the peer wrote it in answer to     *)
(* (0 for a line that answers nothing).                                    *)
(***************************************************************************)
Methods == {"initialize", "tools/list", "tools/call"}

PeerLine(text, n) == [text |-> text, for |-> n]

\* Lines the peer writes unasked: log text, a bare number, a notification,
\* and a request of its own carrying an id.
StrayTexts ==
    { <<BAD>>, <<NUM(5)>>, <<LB, KV("method", 0), RB>> }
    \cup { <<LB, KV("id", i), KV("method", 0), RB>> : i \in 1..MaxReq }

NoLine      == PeerLine(<< >>, -1)   \* no line ended the _send
NoId        == 0    \* msg.get("id") of an object without an id
EmptyResult == 0    \* the {} of msg.get("result", {})

\* An outcome of _send: the id it used, the position of its request in
\* stdin (0 when nothing was written), how it ended, the value returned or
\* the RPC error raised, the line that ended it and, for "No response from
\* server", the error-stream text put in the message.
Outcome(i, pos, kind, value, line, text) ==
    [id |-> i, pos |-> pos, kind |-> kind, value |-> value, by |-> line,
     text |-> text]

InitPipe ==
    /\ proc = "none"
    /\ self_id = 0
    /\ pipePc = "idle"
    /\ req_id = 0
    /\ stdin = << >>
    /\ stdout = << >>
    /\ stdoutClosed = FALSE
    /\ stderr = ""
    /\ stderrReads = 0
    /\ outcomes = << >>
    /\ lastDropped = NoLine

\* _next_id: self._id += 1; return self._id
_next_id(i) == i + 1

\* Line 68 without the comparison of ids: any JSON object ends the wait.
accepts_any_object(text, i) == IsDict(json_loads(text))

\* Lines 61-68: the line parses as JSON, is an object and carries the id.
accepts(text, i) ==
    LET msg == json_loads(text) IN
    /\ msg # ParseFail
    /\ IsDict(msg)
    /\ Get(msg, "id", NoId) = i

\* Line 59 reading nothing: the message carries no error-stream text.
read_stderr_skipped(text) == ""

\* Line 59: err = self.proc.stderr.read()
read_stderr(text) == text

\* client.start()
Start ==
    /\ proc = "none"
    /\ proc' = "running"
    /\ UNCHANGED <<self_id, pipePc, req_id, stdin, stdout, stdoutClosed,
                   stderr, stderrReads, outcomes, lastDropped>>
    /\ UNCHANGED <<sseVars, regVars, restVars, moreVars>>

\* _send before start(): line 49 raises, no id is taken, nothing is written.
SendNotStarted ==
    /\ pipePc = "idle"
    /\ proc = "none"
    /\ Len(outcomes) < MaxReq
    /\ outcomes' = Append(outcomes, Outcome(0, 0, "not_started", 0, NoLine, ""))
    /\ UNCHANGED <<proc, self_id, pipePc, req_id, stdin, stdout, stdoutClosed,
                   stderr, stderrReads, lastDropped>>
    /\ UNCHANGED <<sseVars, regVars, restVars, moreVars>>

\* _send, lines 51-54: take an id, write the request line and flush.
Send ==
    /\ pipePc = "idle"
    /\ proc = "running"
    /\ Len(outcomes) < MaxReq
    /\ \E m \in Methods :
          stdin' = Append(stdin, Request(_next_id(self_id), m))
    /\ self_id' = _next_id(self_id)
    /\ req_id' = _next_id(self_id)
    /\ pipePc' = "reading"
    /\ UNCHANGED <<proc, stdout, stdoutClosed, stderr, stderrReads, outcomes, lastDropped>>
    /\ UNCHANGED <<sseVars, regVars, restVars, moreVars>>

\* _send, lines 51-54, when the peer is gone: the id is taken, the write or
\* the flush raises BrokenPipeError and nothing is read.
SendBrokenPipe ==
    /\ pipePc = "idle"
    /\ proc = "running"
    /\ stdoutClosed
    /\ Len(outcomes) < MaxReq
    /\ self_id' = _next_id(self_id)
    /\ req_id' = _next_id(self_id)
    /\ outcomes' = Append(outcomes,
                       Outcome(_next_id(self_id), 0, "broken_pipe", 0, NoLine, ""))
    /\ UNCHANGED <<proc, pipePc, stdin, stdout, stdoutClosed, stderr,
                   stderrReads, lastDropped>>
    /\ UNCHANGED <<sseVars, regVars, restVars, moreVars>>

\* _send, lines 57-71, on a line read: return or raise on the line with the
\* id, drop any other line and read again.
ReadLine ==
    /\ pipePc = "reading"
    /\ stdout # << >>
    /\ LET line == Head(stdout)
           msg  == json_loads(line.text)
       IN  IF accepts(line.text, req_id)
           THEN /\ outcomes' = Append(outcomes,
                       IF HasKey(msg, "error")
                       THEN Outcome(req_id, Len(stdin), "rpc_error",
                                    Get(msg, "error", 0), line, "")
                       ELSE Outcome(req_id, Len(stdin), "result",
                                    Get(msg, "result", EmptyResult), line, ""))
                /\ pipePc' = "idle"
                /\ lastDropped' = NoLine
           ELSE /\ lastDropped' = line
                /\ UNCHANGED <<outcomes, pipePc>>
    /\ stdout' = Tail(stdout)
    /\ UNCHANGED <<proc, self_id, req_id, stdin, stdoutClosed, stderr,
                   stderrReads>>
    /\ UNCHANGED <<sseVars, regVars, restVars, moreVars>>

\* _send, lines 58-60: readline() returns "" at the end of the peer's
\* output; the error stream is read and RuntimeError raised with its text.
ReadEof ==
    /\ pipePc = "reading"
    /\ stdout = << >>
    /\ stdoutClosed
    /\ outcomes' = Append(outcomes,
                       Outcome(req_id, Len(stdin), "transport", 0, NoLine,
                               read_stderr(stderr)))
    /\ lastDropped' = NoLine
    /\ stderr' = ""
    /\ stderrReads' = stderrReads + 1
    /\ pipePc' = "idle"
    /\ UNCHANGED <<proc, self_id, req_id, stdin, stdout, stdoutClosed>>
    /\ UNCHANGED <<sseVars, regVars, restVars, moreVars>>

\* The peer answers one of the requests it has read, with a result or an
\* error, echoing the id of that request.
PeerReply ==
    /\ ~stdoutClosed
    /\ Len(stdout) < MaxQueue
    /\ \E n \in 1..Len(stdin) :
          \E text \in { ResultEvent(stdin[n].id, 7), ErrorEvent(stdin[n].id, 9) } :
             stdout' = Append(stdout, PeerLine(text, n))
    /\ UNCHANGED <<proc, self_id, pipePc, req_id, stdin, stdoutClosed, stderr,
                   stderrReads, outcomes, lastDropped>>
    /\ UNCHANGED <<sseVars, regVars, restVars, moreVars>>

\* The peer writes a line that answers no request.
PeerStray ==
    /\ proc = "running"
    /\ ~stdoutClosed
    /\ Len(stdout) < MaxQueue
    /\ \E text \in StrayTexts : stdout' = Append(stdout, PeerLine(text, 0))
    /\ UNCHANGED <<proc, self_id, pipePc, req_id, stdin, stdoutClosed, stderr,
                   stderrReads, outcomes, lastDropped>>
    /\ UNCHANGED <<sseVars, regVars, restVars, moreVars>>

\* The peer writes to its error stream.
PeerStderr ==
    /\ proc = "running"
    /\ ~stdoutClosed
    /\ stderr = ""
    /\ stderr' = "Traceback"
    /\ UNCHANGED <<proc, self_id, pipePc, req_id, stdin, stdout, stdoutClosed,
                   stderrReads, outcomes, lastDropped>>
    /\ UNCHANGED <<sseVars, regVars, restVars, moreVars>>

\* The peer exits: its output stream ends after the lines already written.
PeerExit ==
    /\ proc = "running"
    /\ ~stdoutClosed
    /\ stdoutClosed' = TRUE
    /\ UNCHANGED <<proc, self_id, pipePc, req_id, stdin, stdout, stderr,
                   stderrReads, outcomes, lastDropped>>
    /\ UNCHANGED <<sseVars, regVars, restVars, moreVars>>

(***************************************************************************)
(* SpecReg: SimpleHTTPMCPClient.  An endpoint spec is <<scheme, rest>>;    *)
(* parse_servers_argument leaves either a URL with a scheme or a path.     *)
(* A Python dict is [keys, val]: the keys in insertion order and the       *)
(* value of each; assigning to a key that is present keeps its place.      *)
(***************************************************************************)
Urls == { <<"http://", "a">>, <<"https://", "b">>, <<"", "server.py">> }

\* url.startswith("http://") or url.startswith("https://")
IsHttp(url) == url[1] \in {"http://", "https://"}

Range(seq)       == { seq[i] : i \in 1..Len(seq) }
EmptyDict        == [keys |-> << >>, val |-> << >>]
DictHas(d, k)    == k \in Range(d.keys)
DictSet(d, k, v) ==
    [keys |-> IF DictHas(d, k) THEN d.keys ELSE Append(d.keys, k),
     val  |-> (k :> v) @@ d.val]

\* A JSON object schema: the keys of the object and the names of its
\* properties.  {} has no key at all.
Schema(members, properties) ==
    [members |-> members, properties |-> properties]
EmptyDictSchema == Schema(<< >>, << >>)
QuerySchema ==
    Schema(<<"type", "properties", "required">>, <<"query">>)

\* A tool as tools/list describes it; hasDescription and hasInputSchema
\* say whether the key is in the object.  roll_dice declares {} as its
\* schema, ping declares neither a description nor a schema.
Tool(name, hasDescription, description, hasInputSchema, inputSchema) ==
    [name |-> name,
     hasDescription |-> hasDescription, description |-> description,
     hasInputSchema |-> hasInputSchema, inputSchema |-> inputSchema]
ToolSearch ==
    Tool(<<"s", "e", "a", "r", "c", "h">>, TRUE, <<"Search the web">>,
         TRUE, QuerySchema)
ToolRoll ==
    Tool(<<"r", "o", "l", "l", "_", "d", "i", "c", "e">>, TRUE,
         <<"Roll dice">>, TRUE, EmptyDictSchema)
ToolPing ==
    Tool(<<"p", "i", "n", "g">>, FALSE, << >>, FALSE, EmptyDictSchema)

\* The JSON value a "result" member stands for: the member's number names
\* one of these shapes.
ResultTools     == 10   \* {"tools": [search]}
ResultTwoTools  == 11   \* {"tools": [search, roll_dice]}
ResultArray     == 20   \* [search], a bare array
ResultNoTools   == 30   \* {}
result_value(v) ==
    CASE v = ResultTools    -> [shape |-> "object", hasTools |-> TRUE,
                                tools |-> <<ToolSearch>>]
      [] v = ResultTwoTools -> [shape |-> "object", hasTools |-> TRUE,
                                tools |-> <<ToolSearch, ToolRoll>>]
      [] v = ResultArray    -> [shape |-> "array", hasTools |-> FALSE,
                                tools |-> <<ToolSearch>>]
      [] v = ResultNoTools  -> [shape |-> "object", hasTools |-> FALSE,
                                tools |-> << >>]
      [] OTHER              -> [shape |-> "number", hasTools |-> FALSE,
                                tools |-> << >>]

\* What an endpoint may answer to tools/list or tools/call.
RegResponses ==
    { RequestError,
      StatusError(500),
      OkResponse("application/json", <<RawLine(ErrorEvent(1, 9))>>),
      OkResponse("application/json", <<RawLine(ResultEvent(1, ResultTools))>>),
      OkResponse("application/json", <<RawLine(ResultEvent(1, ResultArray))>>),
      OkResponse("text/event-stream",
                 <<DataLine(StatusEvent), BlankLine,
                   DataLine(ResultEvent(1, ResultTwoTools))>>) }

ErrMalformed == -5    \* str(e) of the AttributeError or TypeError raised
ErrNotHttp   == -6    \* "not http(s)"

\* An entry of the result map: its tools and, when the key is present, its
\* error.  (The args and env of universal_llm.py's entries are the
\* endpoint's own, copied unchanged.)
Entry(tools)   == [tools |-> tools, failed |-> FALSE, error |-> 0]
ErrorEntry(e)  == [tools |-> << >>, failed |-> TRUE, error |-> e]

\* fetch_server without its except clause: a failure leaves the task.
fetch_outcome_uncaught(d) ==
    IF ~IsDict(d) \/ HasKey(d, "error")
       \/ (HasKey(d, "result")
             /\ result_value(Get(d, "result", 0)).shape # "object")
    THEN [raised |-> TRUE, entries |-> << >>]
    ELSE [raised |-> FALSE,
          entries |-> <<Entry(IF HasKey(d, "result")
                              THEN result_value(Get(d, "result", 0)).tools
                              ELSE << >>)>>]

\* fetch_server, lines 217-226 (fetch, lines 100-106): the assignments to
\* mapping[url] that processing the reply `d` makes, in order, and whether
\* an exception leaves the task.
\*   "error" in data            TypeError when data is not an object
\*   data.get("result", {})     {} when absent
\*   .get("tools", [])          AttributeError when the result is no object
fetch_outcome(d) ==
    [raised  |-> FALSE,
     entries |->
        IF ~IsDict(d) THEN <<ErrorEntry(ErrMalformed)>>
        ELSE IF HasKey(d, "error") THEN <<ErrorEntry(Get(d, "error", 0))>>
        ELSE IF ~HasKey(d, "result") THEN <<Entry(<< >>)>>
        ELSE LET r == result_value(Get(d, "result", 0)) IN
             IF r.shape # "object" THEN <<ErrorEntry(ErrMalformed)>>
             ELSE IF r.hasTools THEN <<Entry(r.tools)>>
             ELSE <<Entry(<< >>)>>]

\* The join of asyncio.gather releasing as soon as one task has finished.
all_done_first(t) == \E i \in DOMAIN t : t[i] = "done"

\* await asyncio.gather(...): every task has finished.
all_done(t) == \A i \in DOMAIN t : t[i] = "done"

Indices == 1..Len(server_paths)
NoCall  == [url |-> <<"", "">>, posted |-> FALSE, raised |-> FALSE,
            result |-> 0]

InitReg ==
    /\ variant \in {"llm", "llm2"}
    /\ server_paths \in UNION { [1..n -> Urls] : n \in 1..MaxServers }
    /\ task = [i \in 1..Len(server_paths) |-> "new"]
    /\ data = [i \in 1..Len(server_paths) |-> ParseFail]
    /\ mapping = EmptyDict
    /\ sessions = EmptyDict
    /\ clients = 0
    /\ gather = "running"
    /\ returned = EmptyDict
    /\ sent = [u \in Urls |-> << >>]
    /\ writes = [u \in Urls |-> 0]
    /\ sessionWrites = [u \in Urls |-> 0]
    /\ calls = 0
    /\ called = NoCall
    /\ openai_tools = << >>
    /\ closed = {}
    /\ cleaned = FALSE

\* fetch_server / fetch up to its first await, for the endpoint at position
\* i.  asyncio starts the tasks of a gather in argument order and runs each
\* up to its first suspension, so the tasks start in list order.
\* The request posted carries id = idx = i.
FetchStart(i) ==
    /\ task[i] = "new"
    /\ \A j \in 1..(i-1) : task[j] # "new"
    /\ LET url == server_paths[i] IN
       IF ~IsHttp(url)
       THEN /\ task' = [task EXCEPT ![i] = "done"]
            /\ IF variant = "llm2"
               THEN /\ mapping' = DictSet(mapping, url, ErrorEntry(ErrNotHttp))
                    /\ writes' = [writes EXCEPT ![url] = @ + 1]
               ELSE UNCHANGED <<mapping, writes>>
            /\ UNCHANGED <<sessions, clients, sent, sessionWrites>>
       ELSE /\ task' = [task EXCEPT ![i] = "posted"]
            /\ clients' = clients + 1
            /\ sessions' = DictSet(sessions, url, clients + 1)
            /\ sessionWrites' = [sessionWrites EXCEPT ![url] = @ + 1]
            /\ sent' = [sent EXCEPT ![url] = Append(@, Request(i, "tools/list"))]
            /\ UNCHANGED <<mapping, writes>>
    /\ UNCHANGED <<variant, server_paths, data, gather, returned, calls,
                   called, openai_tools>>
    /\ UNCHANGED <<closed, cleaned>>
    /\ UNCHANGED <<sseVars, pipeVars, restVars, moreVars>>

RECURSIVE DictSetAll(_, _, _)
DictSetAll(d, k, vs) ==
    IF vs = << >> THEN d ELSE DictSetAll(DictSet(d, k, Head(vs)), k, Tail(vs))

\* fetch_server / fetch from the reply of its POST to its end.  No task's
\* reply arrives before every task has posted.
FetchComplete(i) ==
    /\ task[i] = "posted"
    /\ \A j \in Indices : task[j] # "new"
    /\ \E r \in RegResponses :
          LET d   == _post_mcp_request(r)
              out == fetch_outcome(d)
              url == server_paths[i]
          IN  /\ data' = [data EXCEPT ![i] = d]
              /\ mapping' = DictSetAll(mapping, url, out.entries)
              /\ writes' = [writes EXCEPT ![url] = @ + Len(out.entries)]
              /\ gather' = IF out.raised /\ gather = "running"
                           THEN "raised" ELSE gather
    /\ task' = [task EXCEPT ![i] = "done"]
    /\ UNCHANGED <<variant, server_paths, sessions, clients, returned, sent,
                   sessionWrites, calls, called, openai_tools>>
    /\ UNCHANGED <<closed, cleaned>>
    /\ UNCHANGED <<sseVars, pipeVars, restVars, moreVars>>

\* connect_to_multiple_servers / connect_and_list: the gather is over and
\* the map is returned.
GatherReturn ==
    /\ gather = "running"
    /\ all_done(task)
    /\ gather' = "returned"
    /\ returned' = mapping
    /\ UNCHANGED <<variant, server_paths, task, data, mapping, sessions,
                   clients, sent, writes, sessionWrites, calls, called,
                   openai_tools>>
    /\ UNCHANGED <<closed, cleaned>>
    /\ UNCHANGED <<sseVars, pipeVars, restVars, moreVars>>

\* call_tool, lines 234-247 (universal_llm2.py, lines 111-120): every call
\* posts a request with "id": 1.  A url without a session is refused by
\* universal_llm.py and gets a fresh session in universal_llm2.py.
CallToolId == 1

CallTool ==
    /\ gather = "returned"
    /\ calls < MaxCalls
    /\ calls' = calls + 1
    /\ \E url \in Urls :
          IF ~DictHas(sessions, url) /\ variant = "llm"
          THEN /\ called' = [url |-> url, posted |-> FALSE, raised |-> TRUE,
                             result |-> 0]
               /\ UNCHANGED <<sessions, clients, sessionWrites, sent>>
          ELSE /\ IF DictHas(sessions, url)
                  THEN UNCHANGED <<sessions, clients, sessionWrites>>
                  ELSE /\ clients' = clients + 1
                       /\ sessions' = DictSet(sessions, url, clients + 1)
                       /\ sessionWrites' = [sessionWrites EXCEPT ![url] = @ + 1]
               /\ sent' = [sent EXCEPT
                             ![url] = Append(@, Request(CallToolId, "tools/call"))]
               /\ \E r \in RegResponses :
                     LET d == _post_mcp_request(r) IN
                     called' = [url |-> url, posted |-> TRUE,
                                raised |-> ~IsDict(d) \/ HasKey(d, "error"),
                                result |-> IF IsDict(d) /\ ~HasKey(d, "error")
                                           THEN Get(d, "result", 0) ELSE 0]
    /\ UNCHANGED <<variant, server_paths, task, data, mapping, gather,
                   returned, writes, openai_tools>>
    /\ UNCHANGED <<closed, cleaned>>
    /\ UNCHANGED <<sseVars, pipeVars, restVars, moreVars>>

\* cleanup, lines 249-252, run by the finally of main (lines 610-611):
\* aclose() on every value of self._sessions, then the table is cleared.
Cleanup ==
    /\ gather # "running"
    /\ ~cleaned
    /\ closed' = closed \cup { sessions.val[k] : k \in Range(sessions.keys) }
    /\ sessions' = EmptyDict
    /\ cleaned' = TRUE
    /\ UNCHANGED <<variant, server_paths, task, data, mapping, clients,
                   gather, returned, sent, writes, sessionWrites, calls,
                   called, openai_tools>>
    /\ UNCHANGED <<sseVars, pipeVars, restVars, moreVars>>

\* str(idx) and f"server{idx}_{name}", as sequences of characters.
RECURSIVE Str(_)
Str(n) ==
    LET digit == <<"0", "1", "2", "3", "4", "5", "6", "7", "8", "9">> IN
    IF n < 10 THEN <<digit[n + 1]>>
    ELSE Str(n \div 10) \o <<digit[(n % 10) + 1]>>

function_name(idx, name) ==
    <<"s", "e", "r", "v", "e", "r">> \o Str(idx) \o <<"_">> \o name

\* create_openai_tools, lines 318-342: for idx, (url, info) in
\* enumerate(server_mapping.items(), 1), one entry per tool of info.
\* Lines 326-327: tool.get("description", "No description") and
\* tool.get("inputSchema", {}).
tool_description(tool) ==
    IF tool.hasDescription THEN tool.description ELSE <<"No description">>
tool_input_schema(tool) ==
    IF tool.hasInputSchema THEN tool.inputSchema ELSE EmptyDictSchema

\* Line 336: f"[Server {idx}] {desc}".
server_tag(idx) == <<"[Server ">> \o Str(idx) \o <<"] ">>

\* Line 337: input_schema if input_schema else {"type": "object",
\* "properties": {}}; a dict without keys is false.
EmptyObjectSchema == Schema(<<"type", "properties">>, << >>)
parameters_verbatim(input_schema) == input_schema
parameters(input_schema) ==
    IF input_schema.members # << >> THEN input_schema
    ELSE EmptyObjectSchema

RECURSIVE catalog_from(_, _)
catalog_from(d, idx) ==
    IF idx > Len(d.keys) THEN << >>
    ELSE LET tools == d.val[d.keys[idx]].tools IN
         [t \in 1..Len(tools) |->
             [name        |-> function_name(idx, tools[t].name),
              description |-> server_tag(idx)
                                 \o tool_description(tools[t]),
              parameters  |-> parameters(tool_input_schema(tools[t]))]]
         \o catalog_from(d, idx + 1)

create_openai_tools(server_mapping) == catalog_from(server_mapping, 1)

\* main, lines 500 and 564: the map the build returned is the one every
\* catalog is made from.
CreateOpenaiTools ==
    /\ gather = "returned"
    /\ variant = "llm"
    /\ openai_tools' = create_openai_tools(returned)
    /\ UNCHANGED <<variant, server_paths, task, data, mapping, sessions,
                   clients, gather, returned, sent, writes, sessionWrites,
                   calls, called>>
    /\ UNCHANGED <<closed, cleaned>>
    /\ UNCHANGED <<sseVars, pipeVars, restVars, moreVars>>

(***************************************************************************)
(* SpecCoerce: coerce_rolls (agent.py, math_client_langchain.py).          *)
(*                                                                         *)
(* A Python value is [t, items]: t is "none", "list", "str" or "other"     *)
(* (a number, a dict, a tuple), and items are the elements of a list or    *)
(* the tokens of a string.  An element or token is [k, v]:                 *)
(*   elements  "int" (v its value), "bool", "str"                          *)
(*   tokens    "[" "]" "(" ")" ","  and the literals "num" (v its value),  *)
(*             "True", "quote" (a quoted string), and "junk"               *)
(***************************************************************************)
El(k, v)      == [k |-> k, v |-> v]
PyNone        == [t |-> "none", items |-> << >>]
PyOther       == [t |-> "other", items |-> << >>]
PyList(items) == [t |-> "list", items |-> items]
PyStr(toks)   == [t |-> "str", items |-> toks]

Elements == { El("int", 1), El("int", 2), El("bool", 1), El("str", 0) }

\* The literal token of an element, and the element a literal token
\* evaluates to.
Literal(e) ==
    CASE e.k = "int"  -> El("num", e.v)
      [] e.k = "bool" -> El("True", e.v)
      [] OTHER        -> El("quote", e.v)
IsLiteral(tok) == tok.k \in {"num", "True", "quote"}
element_of(tok) ==
    CASE tok.k = "num"  -> El("int", tok.v)
      [] tok.k = "True" -> El("bool", tok.v)
      [] OTHER          -> El("str", tok.v)

\* The source text of a display of the elements: e1, e2, ..., en
RECURSIVE Joined(_)
Joined(items) ==
    IF items = << >> THEN << >>
    ELSE IF Len(items) = 1 THEN <<Literal(items[1])>>
    ELSE <<Literal(items[1]), El(",", 0)>> \o Joined(Tail(items))
ListText(items) == <<El("[", 0)>> \o Joined(items) \o <<El("]", 0)>>
ListTextTrailingComma(items) ==
    <<El("[", 0)>> \o Joined(items) \o <<El(",", 0), El("]", 0)>>
TupleText(items) ==
    <<El("(", 0)>> \o Joined(items) \o <<El(",", 0), El(")", 0)>>
UnclosedText(items) == <<El("[", 0)>> \o Joined(items)

\* isinstance(x, int): True for a bool as well, bool being a subclass of int.
isinstance_int(e) == e.k \in {"int", "bool"}

\* isinstance(v, list) and all(isinstance(x, int) for x in v)
is_int_list(v) ==
    v.t = "list" /\ \A i \in 1..Len(v.items) : isinstance_int(v.items[i])

\* ast.literal_eval on the tokens of a display: a list literal gives the
\* list, a tuple literal or a single literal gives a value that is no list,
\* anything else raises ("fail").  Inside the brackets literals and commas
\* alternate, with one optional trailing comma.
literal_eval(toks) ==
    LET n     == Len(toks)
        inner == IF n >= 2 THEN SubSeq(toks, 2, n - 1) ELSE << >>
        m     == Len(inner)
        wellFormed ==
            /\ \A i \in 1..m : IF i % 2 = 1 THEN IsLiteral(inner[i])
                               ELSE inner[i].k = ","
        elems == [j \in 1..((m + 1) \div 2) |-> element_of(inner[2 * j - 1])]
    IN  IF n = 1 /\ IsLiteral(toks[1]) THEN PyOther
        ELSE IF n >= 2 /\ toks[1].k = "[" /\ toks[n].k = "]" /\ wellFormed
        THEN PyList(elems)
        ELSE IF n >= 2 /\ toks[1].k = "(" /\ toks[n].k = ")" /\ wellFormed
        THEN PyOther
        ELSE [t |-> "fail", items |-> << >>]

Returned(v) == [raised |-> FALSE, out |-> v]
Raised      == [raised |-> TRUE, out |-> PyNone]

\* `if last_rolls and ...` with the truth test left out.
cache_usable_when_empty(cache) == is_int_list(cache)

\* Line 28: last_rolls and isinstance(last_rolls, list) and all(...).  None
\* and the empty list are false.
cache_usable(cache) ==
    /\ cache.t # "none"
    /\ ~(cache.t \in {"list", "str"} /\ cache.items = << >>)
    /\ is_int_list(cache)

\* coerce_rolls without the fall-back of lines 28-29.
coerce_rolls_without_cache(v, cache) ==
    IF is_int_list(v) THEN Returned(v)
    ELSE IF v.t = "str" /\ is_int_list(literal_eval(v.items))
    THEN Returned(literal_eval(v.items))
    ELSE Raised

\* coerce_rolls, lines 18-30.
coerce_rolls(v, cache) ==
    IF is_int_list(v) THEN Returned(v)
    ELSE IF v.t = "str" /\ is_int_list(literal_eval(v.items))
    THEN Returned(literal_eval(v.items))
    ELSE IF cache_usable(cache) THEN Returned(cache)
    ELSE Raised

SeqsUpTo(S, n) == UNION { [1..k -> S] : k \in 0..n }

\* What a caller may pass as `value`: nothing, a list, a number or a dict,
\* or a string holding a list display, a tuple, an unclosed list or
\* something else.
Values ==
    {PyNone, PyOther, PyStr(<<El("junk", 0)>>), PyStr(<<El("num", 1)>>)}
    \cup { PyList(items) : items \in SeqsUpTo(Elements, MaxRolls) }
    \cup { PyStr(ListText(items)) : items \in SeqsUpTo(Elements, MaxRolls) }
    \cup { PyStr(ListTextTrailingComma(items)) :
              items \in SeqsUpTo(Elements, MaxRolls) }
    \cup { PyStr(TupleText(items)) : items \in SeqsUpTo(Elements, MaxRolls) }
    \cup { PyStr(UnclosedText(items)) : items \in SeqsUpTo(Elements, MaxRolls) }

Caches ==
    {PyNone, PyOther, PyStr(<<El("junk", 0)>>)}
    \cup { PyList(items) : items \in SeqsUpTo(Elements, MaxCache) }

InitCoerce ==
    /\ coercePc = "idle"
    /\ rolls_value \in Values
    /\ last_rolls \in Caches
    /\ coerced = Raised

IdleCoerce ==
    /\ coercePc = "idle"
    /\ rolls_value = PyNone
    /\ last_rolls = PyNone
    /\ coerced = Raised

CoerceRolls ==
    /\ coercePc = "idle"
    /\ coercePc' = "done"
    /\ coerced' = coerce_rolls(rolls_value, last_rolls)
    /\ UNCHANGED <<rolls_value, last_rolls>>
    /\ UNCHANGED <<sseVars, pipeVars, regVars, sessVars, chatVars, agentVars, moreVars>>

(***************************************************************************)
(* SpecSession: main of client.py on one MCPClientStdio: initialize, the   *)
(* initialized notification, tools_list with its three attempts, then      *)
(* tools_call with its fallback.  Each _send is one step here: it writes   *)
(* the request and ends with the result of the matching line or with an    *)
(* exception (SpecPipe has the reading loop).                              *)
(***************************************************************************)
Message(kind, method, params) ==
    [kind |-> kind, method |-> method, params |-> params]

\* tools_list, lines 101-105: the method and the params of each attempt.
attempts ==
    << [method |-> "tools/list", params |-> "{}"],
       [method |-> "tools/list", params |-> "{cursor: null}"],
       [method |-> "list_tools", params |-> "{}"] >>

\* What _send returns to tools_list, or the exception it raises.
ListReply(shape, hasCursor, hasTools, tools) ==
    [shape |-> shape, hasCursor |-> hasCursor, hasTools |-> hasTools,
     tools |-> tools]
ToolLists == { << >>, <<ToolSearch>>, <<ToolSearch, ToolRoll>> }
ListReplies ==
    { ListReply("object", FALSE, TRUE, t) : t \in ToolLists }
    \cup { ListReply("object", TRUE, TRUE, t) : t \in ToolLists }
    \cup { ListReply("array", FALSE, FALSE, t) : t \in ToolLists }
    \cup { ListReply("object", FALSE, FALSE, << >>),
           ListReply("object", TRUE, FALSE, << >>),
           ListReply("number", FALSE, FALSE, << >>),
           ListReply("exception", FALSE, FALSE, << >>) }
NoReply == ListReply("none", FALSE, FALSE, << >>)

\* tools_list, lines 111-118: the tools of a dict with a "tools" key, or the
\* list itself; anything else is not taken.
tools_list_normalize(res) ==
    IF res.shape = "object" /\ res.hasTools
    THEN [ok |-> TRUE, tools |-> res.tools]
    ELSE IF res.shape = "array" THEN [ok |-> TRUE, tools |-> res.tools]
    ELSE [ok |-> FALSE, tools |-> << >>]

\* initialize with the try of lines 93-96 removed: the exception of _notify
\* leaves initialize.
initialize_outcome_unguarded(res, notifyRaised) ==
    [raised |-> notifyRaised, out |-> res]

\* initialize, lines 92-97: whatever _notify did, res is returned.
initialize_outcome(res, notifyRaised) == [raised |-> FALSE, out |-> res]

NotListed == [state |-> "none", tools |-> << >>, by |-> NoReply, error |-> 0]
InitResults == {0, 7}
NoResult == -1

InitSession ==
    /\ sessPc = "started"
    /\ wire = << >>
    /\ init_reply = NoResult
    /\ init_res = NoResult
    /\ notified = "none"
    /\ attempt = 1
    /\ last_err = 0
    /\ list_log = << >>
    /\ listed = NotListed
    /\ toolCalls = 0

\* initialize, lines 84-91: _send("initialize", ...) returns a result.
InitializeSend ==
    /\ sessPc = "started"
    /\ wire' = Append(wire, Message("request", "initialize", "{protocolVersion, capabilities, clientInfo}"))
    /\ \E r \in InitResults : init_reply' = r
    /\ sessPc' = "initialize_sent"
    /\ UNCHANGED <<init_res, notified, attempt, last_err, list_log, listed,
                   toolCalls>>
    /\ UNCHANGED <<sseVars, pipeVars, regVars, coerceVars, chatVars, agentVars, moreVars>>

\* _send("initialize", ...) raises: main leaves through its finally.
InitializeSendRaises ==
    /\ sessPc = "started"
    /\ \E written \in BOOLEAN :
          wire' = IF written THEN Append(wire, Message("request", "initialize", "{protocolVersion, capabilities, clientInfo}"))
                  ELSE wire
    /\ sessPc' = "raised"
    /\ UNCHANGED <<init_reply, init_res, notified, attempt, last_err, list_log,
                   listed, toolCalls>>
    /\ UNCHANGED <<sseVars, pipeVars, regVars, coerceVars, chatVars, agentVars, moreVars>>

\* initialize, lines 93-97: _notify("initialized", {}) writes the
\* notification or raises (no process, a closed pipe); then return res.
InitializeNotify ==
    /\ sessPc = "initialize_sent"
    /\ \E notifyRaised \in BOOLEAN :
          LET out == initialize_outcome(init_reply, notifyRaised) IN
          /\ notified' = IF notifyRaised THEN "raised" ELSE "sent"
          /\ wire' = IF notifyRaised THEN wire
                     ELSE Append(wire, Message("notification", "initialized", "{}"))
          /\ sessPc' = IF out.raised THEN "raised" ELSE "listing"
          /\ init_res' = IF out.raised THEN init_res ELSE out.out
    /\ UNCHANGED <<init_reply, attempt, last_err, list_log, listed, toolCalls>>
    /\ UNCHANGED <<sseVars, pipeVars, regVars, coerceVars, chatVars, agentVars, moreVars>>

\* tools_list, lines 119-120: `except Exception as e: last_err = e`; the
\* exception is named by the attempt that raised it.
first_err(last, n, res) ==
    IF res.shape = "exception" /\ last = 0 THEN n ELSE last
next_last_err(last, n, res) ==
    IF res.shape = "exception" THEN n ELSE last

\* Line 121: raise last_err or RuntimeError("Unable to list tools").
UnableToListTools == 99
raised_error(last) == IF last # 0 THEN last ELSE UnableToListTools

\* tools_list, lines 107-121: one attempt; after the last one,
\* raise last_err or RuntimeError("Unable to list tools").
ToolsListAttempt ==
    /\ sessPc = "listing"
    /\ attempt <= Len(attempts)
    /\ wire' = Append(wire, Message("request", attempts[attempt].method,
                                attempts[attempt].params))
    /\ \E res \in ListReplies :
          LET n == tools_list_normalize(res) IN
          /\ list_log' = Append(list_log, res)
          /\ IF n.ok
             THEN /\ listed' = [state |-> "ok", tools |-> n.tools, by |-> res,
                                error |-> 0]
                  /\ sessPc' = "ready"
                  /\ UNCHANGED <<attempt, last_err>>
             ELSE /\ last_err' = next_last_err(last_err, attempt, res)
                  /\ attempt' = attempt + 1
                  /\ IF attempt = Len(attempts)
                     THEN /\ listed' = [state |-> "raised", tools |-> << >>,
                                        by |-> res,
                                        error |-> raised_error(last_err')]
                          /\ sessPc' = "raised"
                     ELSE UNCHANGED <<listed, sessPc>>
    /\ UNCHANGED <<init_reply, init_res, notified, toolCalls>>
    /\ UNCHANGED <<sseVars, pipeVars, regVars, coerceVars, chatVars, agentVars, moreVars>>

\* tools_call, lines 123-132: _send("tools/call", ...); when it raises,
\* _send(name, arguments); when that raises too, the first exception.  main
\* prints the error and reads the next input.
ToolsCall ==
    /\ sessPc = "ready"
    /\ toolCalls < MaxCalls
    /\ toolCalls' = toolCalls + 1
    /\ \E firstRaised \in BOOLEAN :
          wire' = IF firstRaised
                  THEN wire \o <<Message("request", "tools/call", "{name, arguments}"),
                                 Message("request", "direct", "arguments")>>
                  ELSE Append(wire, Message("request", "tools/call", "{name, arguments}"))
    /\ UNCHANGED <<sessPc, init_reply, init_res, notified, attempt, last_err,
                   list_log, listed>>
    /\ UNCHANGED <<sseVars, pipeVars, regVars, coerceVars, chatVars, agentVars, moreVars>>

IdleSession == InitSession

(***************************************************************************)
(* SpecChat: OpenAIMCPIntegration.chat_with_tools on one registry          *)
(* snapshot.  Strings are sequences of characters.                         *)
(***************************************************************************)
ServerPrefix == <<"s", "e", "r", "v", "e", "r">>
Digits == <<"0", "1", "2", "3", "4", "5", "6", "7", "8", "9">>

\* s.startswith(p)
startswith(str, p) == Len(str) >= Len(p) /\ SubSeq(str, 1, Len(p)) = p

\* c in s
contains(str, c) == \E i \in 1..Len(str) : str[i] = c

\* s.rsplit(c, 1): cut at the last c.
rsplit_once(str, c) ==
    LET at == CHOOSE i \in 1..Len(str) :
                 str[i] = c /\ \A j \in (i + 1)..Len(str) : str[j] # c
    IN  <<SubSeq(str, 1, at - 1), SubSeq(str, at + 1, Len(str))>>

\* s.split(c, 1) for a string that contains c: cut at the first c.
split_once(str, c) ==
    LET at == CHOOSE i \in 1..Len(str) :
                 str[i] = c /\ \A j \in 1..(i - 1) : str[j] # c
    IN  <<SubSeq(str, 1, at - 1), SubSeq(str, at + 1, Len(str))>>

\* int(s) for a string of decimal digits; -1 stands for the ValueError
\* raised on anything else (the empty string, a letter).
RECURSIVE int(_)
int(str) ==
    IF str = << >> THEN -1
    ELSE LET last == str[Len(str)]
             d    == IF \E v \in 1..10 : Digits[v] = last
                     THEN (CHOOSE v \in 1..10 : Digits[v] = last) - 1
                     ELSE -1
             init == SubSeq(str, 1, Len(str) - 1)
         IN  IF d = -1 THEN -1
             ELSE IF init = << >> THEN d
             ELSE IF int(init) = -1 THEN -1
             ELSE 10 * int(init) + d

RECURSIVE without_failed(_, _)
without_failed(keys, val) ==
    IF keys = << >> THEN << >>
    ELSE (IF val[Head(keys)].failed THEN << >> ELSE <<Head(keys)>>)
         \o without_failed(Tail(keys), val)

\* The list of URLs with the failed endpoints left out.
server_urls_without_failed(server_mapping) ==
    without_failed(server_mapping.keys, server_mapping.val)

\* Line 393: server_urls = list(server_mapping.keys())
server_urls(server_mapping) == server_mapping.keys

NoUrl == <<"", "">>

\* Lines 387-395: the identifier is parsed into a server index and a tool
\* name and the index looked up in the snapshot.
\*   "skip"   the identifier is not of the form or the index is out of
\*            range: neither branch has an else, nothing is done
\*   "raise"  int() raises ValueError
resolve(function_name_, server_mapping) ==
    IF ~(startswith(function_name_, ServerPrefix) /\ contains(function_name_, "_"))
    THEN [kind |-> "skip", url |-> NoUrl, tool |-> << >>]
    ELSE LET parts      == split_once(function_name_, "_")
             server_idx == int(SubSeq(parts[1], 7, Len(parts[1])))
             urls       == server_urls(server_mapping)
         IN  IF server_idx = -1
             THEN [kind |-> "raise", url |-> NoUrl, tool |-> << >>]
             ELSE IF 1 <= server_idx /\ server_idx <= Len(urls)
             THEN [kind |-> "ok", url |-> urls[server_idx], tool |-> parts[2]]
             ELSE [kind |-> "skip", url |-> NoUrl, tool |-> << >>]

\* The loop of line 382 going on to the next call without waiting for the
\* call it dispatched.
may_dispatch_without_await(flying) == TRUE

\* Line 399: `await mcp_client.call_tool(...)`: the loop goes on when the
\* call has returned.
may_dispatch(flying) == flying = << >>

\* A transcript entry.  `calls` are the ids of the tool calls of an
\* assistant message; `id` is the tool_call_id of a tool message.
Msg(role, id, content, ids) ==
    [role |-> role, id |-> id, content |-> content, calls |-> ids]

ContentText   == 0    \* text of the user or of the assistant
ContentResult == 1    \* json.dumps(result) or "Tool executed successfully"
ContentError  == 2    \* "Error calling tool ...: ..."

\* Lines 397-415: the entry appended for a call that was dispatched.
tool_entries(id, raised) ==
    IF raised THEN <<Msg("tool", id, ContentError, << >>)>>
    ELSE <<Msg("tool", id, ContentResult, << >>)>>

\* The snapshots: the http(s) endpoints in either order, each with two
\* tools, with one tool or with an error entry.
SnapshotUrls == { u \in Urls : IsHttp(u) }
SnapshotEntries ==
    { Entry(<<ToolSearch, ToolRoll>>), Entry(<<ToolPing>>),
      ErrorEntry(ErrRequest) }
Snapshots ==
    { [keys |-> k, val |-> v] :
        k \in { q \in SeqsUpTo(SnapshotUrls, 2) :
                   q # << >> /\ \A i, j \in 1..Len(q) : i # j => q[i] # q[j] },
        v \in [SnapshotUrls -> SnapshotEntries] }

\* Identifiers the LLM may ask for that are not in the catalog: a bare tool
\* name, an index that is out of range, and no index at all.
StrayNames ==
    { ToolSearch.name,
      function_name(9, ToolSearch.name),
      ServerPrefix \o <<"_">> \o ToolSearch.name }

\* A tool call of the reply: its identifier and whether its arguments are
\* JSON text.
Call(name, argsOk) == [name |-> name, argsOk |-> argsOk]
CallsOn(catalog) ==
    { Call(n, TRUE) : n \in { catalog[k].name : k \in 1..Len(catalog) }
                            \cup StrayNames }
    \cup { Call(ToolSearch.name, FALSE) }

\* What the endpoint answers to tools/call.
ChatResponses ==
    { RequestError,
      OkResponse("application/json", <<RawLine(ErrorEvent(1, 9))>>),
      OkResponse("application/json", <<RawLine(ResultEvent(1, ResultTools))>>) }

\* call_tool, lines 244-247, raises on an error reply.
call_tool_raises(d) == ~IsDict(d) \/ HasKey(d, "error")

ContentEmpty   == 4   \* message.content is None or ""
ContentApology == 5   \* "I apologize, but I couldn't generate a response."
ContentAiError == 6   \* "Error communicating with AI: ..."

\* Lines 366-367: the `tools` argument of the first request of a turn.
tools_argument(catalog) == [given |-> catalog # << >>, tools |-> catalog]

\* Lines 418-421: the request after the tool calls names no tools.
NoTools == [given |-> FALSE, tools |-> << >>]

\* How one LLM request ended: with an exception, or with a reply of that
\* content and that many tool calls.
LlmReply(ok, content, n) == [ok |-> ok, content |-> content, calls |-> n]
ReplyTexts == {ContentText, ContentEmpty}

\* What chat_with_tools gives its caller: always a returned string.
Output(content) == [channel |-> "return", content |-> content]
NoOutput == [channel |-> "none", content |-> ContentEmpty]

\* Line 429: message.content or the fixed text.
content_or_apology(content) ==
    IF content = ContentEmpty THEN ContentApology ELSE content

\* reset_conversation leaving the list as it is.
reset_conversation_keeping(history) == history

\* reset_conversation, lines 276-278.
reset_conversation(history) == << >>

\* Lines 353-356: the system message is put first when the transcript has
\* none.
with_system_message_always(history) ==
    <<Msg("system", 0, ContentText, << >>)>> \o history
with_system_message(history) ==
    IF \E j \in 1..Len(history) : history[j].role = "system" THEN history
    ELSE <<Msg("system", 0, ContentText, << >>)>> \o history

InitChat ==
    /\ chatPc = "start"
    /\ snapshot \in { m \in Snapshots :
                         \A u \in SnapshotUrls :
                            ~DictHas(m, u) => m.val[u] = ErrorEntry(ErrRequest) }
    /\ chat_tools = << >>
    /\ conversation_history = << >>
    /\ tool_calls = << >>
    /\ call_ix = 1
    /\ in_flight = << >>
    /\ dispatched = << >>
    /\ llm_sent = << >>
    /\ llm_tools = << >>
    /\ llm_replies = << >>
    /\ chat_output = NoOutput
    /\ turn = 0
    /\ reset_turn = 0
    /\ reset_calls = 0
    /\ call_base = 0

IdleChat ==
    /\ chatPc = "start"
    /\ snapshot = EmptyDict
    /\ chat_tools = << >>
    /\ conversation_history = << >>
    /\ tool_calls = << >>
    /\ call_ix = 1
    /\ in_flight = << >>
    /\ dispatched = << >>
    /\ llm_sent = << >>
    /\ llm_tools = << >>
    /\ llm_replies = << >>
    /\ chat_output = NoOutput
    /\ turn = 0
    /\ reset_turn = 0
    /\ reset_calls = 0
    /\ call_base = 0

\* Lines 350-378 and 427-436: a chat_with_tools call begins.  The user
\* message (its text is the number of the turn) is added, the system
\* message put first when there is none, the catalog built and the LLM
\* asked; it raises, answers with text, or asks for tool calls.
ChatAskLlm ==
    /\ chatPc \in {"start", "returned", "aborted"}
    /\ turn + call_base + Len(tool_calls) <= MaxToolCalls
    /\ LET history == with_system_message(
                         Append(conversation_history,
                                Msg("user", turn + 1, ContentText, << >>)))
           catalog == create_openai_tools(snapshot)
           base    == call_base + Len(tool_calls)
       IN  /\ chat_tools' = catalog
           /\ llm_sent' = Append(llm_sent, history)
           /\ llm_tools' = Append(llm_tools, tools_argument(catalog))
           /\ call_base' = base
           /\ \/ /\ chatPc' = "aborted"
                 /\ conversation_history' = history
                 /\ tool_calls' = << >>
                 /\ llm_replies' =
                       Append(llm_replies, LlmReply(FALSE, ContentEmpty, 0))
                 /\ chat_output' = Output(ContentAiError)
              \/ \E text \in ReplyTexts :
                    /\ chatPc' = "returned"
                    /\ conversation_history' =
                          Append(history,
                                 Msg("assistant", 0, content_or_apology(text),
                                     << >>))
                    /\ tool_calls' = << >>
                    /\ llm_replies' = Append(llm_replies, LlmReply(TRUE, text, 0))
                    /\ chat_output' = Output(content_or_apology(text))
              \/ \E asked \in SeqsUpTo(CallsOn(catalog), MaxToolCalls - base - turn) :
                    /\ asked # << >>
                    /\ tool_calls' = asked
                    /\ chatPc' = "tools"
                    /\ conversation_history' =
                          Append(history,
                                 Msg("assistant", 0, ContentText,
                                     [k \in 1..Len(asked) |-> base + k]))
                    /\ llm_replies' =
                          Append(llm_replies,
                                 LlmReply(TRUE, ContentText, Len(asked)))
                    /\ chat_output' = NoOutput
    /\ turn' = turn + 1
    /\ call_ix' = 1
    /\ UNCHANGED <<snapshot, in_flight, dispatched, reset_turn, reset_calls>>
    /\ UNCHANGED <<sseVars, pipeVars, regVars, coerceVars, sessVars, agentVars, moreVars>>

\* Lines 382-399: the next call of the reply.  json.loads of the arguments
\* or int() of the index may raise, which the handler of line 433 turns
\* into the return of an error text; an identifier that does not resolve
\* is passed over; a resolved one is dispatched with call_tool.
ChatNextCall ==
    /\ chatPc = "tools"
    /\ call_ix <= Len(tool_calls)
    /\ may_dispatch(in_flight)
    /\ LET call == tool_calls[call_ix]
           to   == resolve(call.name, snapshot)
       IN  IF ~call.argsOk \/ to.kind = "raise"
           THEN /\ chatPc' = "aborted"
                /\ chat_output' = Output(ContentAiError)
                /\ UNCHANGED <<call_ix, in_flight, dispatched>>
           ELSE IF to.kind = "skip"
           THEN /\ call_ix' = call_ix + 1
                /\ UNCHANGED <<chatPc, in_flight, dispatched, chat_output>>
           ELSE /\ call_ix' = call_ix + 1
                /\ in_flight' = Append(in_flight, call_base + call_ix)
                /\ dispatched' = Append(dispatched,
                                        [ix |-> call_base + call_ix,
                                         url |-> to.url, tool |-> to.tool])
                /\ UNCHANGED <<chatPc, chat_output>>
    /\ UNCHANGED <<snapshot, chat_tools, conversation_history, tool_calls,
                   llm_sent, llm_tools, llm_replies, turn, reset_turn,
                   reset_calls, call_base>>
    /\ UNCHANGED <<sseVars, pipeVars, regVars, coerceVars, sessVars, agentVars, moreVars>>

\* Lines 399-415: a dispatched call returns or raises, and its entry is
\* appended.
ChatCallReturns ==
    /\ chatPc = "tools"
    /\ \E n \in 1..Len(in_flight) : \E r \in ChatResponses :
          LET d == _post_mcp_request(r) IN
          /\ conversation_history' =
                conversation_history
                \o tool_entries(in_flight[n], call_tool_raises(d))
          /\ in_flight' = SubSeq(in_flight, 1, n - 1)
                          \o SubSeq(in_flight, n + 1, Len(in_flight))
    /\ UNCHANGED <<chatPc, snapshot, chat_tools, tool_calls, call_ix,
                   dispatched, llm_sent, llm_tools, llm_replies, chat_output,
                   turn, reset_turn, reset_calls, call_base>>
    /\ UNCHANGED <<sseVars, pipeVars, regVars, coerceVars, sessVars, agentVars, moreVars>>

\* Lines 417-425 and 433-436: after the last call the LLM is asked again
\* with the transcript and without tools; the content of its answer is
\* added and returned, or its failure returned as a text.
ChatFinalLlm ==
    /\ chatPc = "tools"
    /\ call_ix > Len(tool_calls)
    /\ in_flight = << >>
    /\ llm_sent' = Append(llm_sent, conversation_history)
    /\ llm_tools' = Append(llm_tools, NoTools)
    /\ \/ \E text \in ReplyTexts :
             /\ chatPc' = "returned"
             /\ conversation_history' =
                   Append(conversation_history,
                          Msg("assistant", 0, text, << >>))
             /\ llm_replies' = Append(llm_replies, LlmReply(TRUE, text, 0))
             /\ chat_output' = Output(text)
       \/ /\ chatPc' = "aborted"
          /\ llm_replies' =
                Append(llm_replies, LlmReply(FALSE, ContentEmpty, 0))
          /\ chat_output' = Output(ContentAiError)
          /\ UNCHANGED conversation_history
    /\ UNCHANGED <<snapshot, chat_tools, tool_calls, call_ix, in_flight,
                   dispatched, turn, reset_turn, reset_calls, call_base>>
    /\ UNCHANGED <<sseVars, pipeVars, regVars, coerceVars, sessVars, agentVars, moreVars>>

\* The `reset` command of main, lines 570-573, between two chat_with_tools
\* calls.
ResetConversation ==
    /\ chatPc \in {"start", "returned", "aborted"}
    /\ conversation_history' = reset_conversation(conversation_history)
    /\ reset_turn' = turn
    /\ reset_calls' = call_base + Len(tool_calls)
    /\ UNCHANGED <<chatPc, snapshot, chat_tools, tool_calls, call_ix,
                   in_flight, dispatched, llm_sent, llm_tools, llm_replies,
                   chat_output, turn, call_base>>
    /\ UNCHANGED <<sseVars, pipeVars, regVars, coerceVars, sessVars, agentVars, moreVars>>

(***************************************************************************)
(* SpecAgent: the loop of main in agent.py.                                *)
(***************************************************************************)
ContentValidation == 3   \* "Input validation error: 'rolls' must be ..."

\* A tool call of a reply.  args is "dict" (the arguments are a JSON
\* object whose "rolls" member is `rolls`, PyNone when absent), "nondict"
\* (JSON, but no object) or "badjson".
AgentCall(id, fn, args, rolls) ==
    [id |-> id, fn |-> fn, args |-> args, rolls |-> rolls]

\* Lines 164-168 and 173: args = json.loads(raw_args), {} when that
\* raises; rolls_arg = args.get("rolls", None).
rolls_arg(call) == IF call.args = "badjson" THEN PyNone ELSE call.rolls

AgentCallShapes ==
    { [fn |-> "roll_dice", args |-> "dict", rolls |-> PyNone],
      [fn |-> "sum_dice", args |-> "dict", rolls |-> PyList(<<El("int", 1)>>)],
      [fn |-> "sum_dice", args |-> "dict",
       rolls |-> PyStr(ListText(<<El("int", 1)>>))],
      [fn |-> "sum_dice", args |-> "dict", rolls |-> PyStr(<<El("junk", 0)>>)],
      [fn |-> "sum_dice", args |-> "dict", rolls |-> PyNone],
      [fn |-> "sum_dice", args |-> "dict", rolls |-> PyList(<< >>)],
      [fn |-> "roll_dice", args |-> "badjson", rolls |-> PyNone],
      [fn |-> "sum_dice", args |-> "badjson", rolls |-> PyNone],
      [fn |-> "sum_dice", args |-> "nondict", rolls |-> PyNone] }

\* What a tool returns, as normalize_tool_output renders it (always a
\* string): the JSON text of a list of integers, of the empty list, of a
\* list holding one string, a Python display with a trailing comma, and
\* other text.
ToolOutputs ==
    { PyStr(ListText(<<El("int", 2)>>)),
      PyStr(ListText(<< >>)),
      PyStr(ListText(<<El("str", 0)>>)),
      PyStr(ListTextTrailingComma(<<El("int", 2)>>)),
      PyStr(<<El("junk", 0)>>) }

\* json.loads on the tokens of a display: like literal_eval, but a
\* trailing comma, a tuple and the literal True are no JSON ("fail").
loads_display(toks) ==
    LET n == Len(toks) IN
    IF \/ \E i \in 1..n : toks[i].k \in {"True", "(", ")"}
       \/ (n >= 2 /\ toks[n - 1].k = ",")
    THEN [t |-> "fail", items |-> << >>]
    ELSE literal_eval(toks)

\* Lines 250-260: tmp = json.loads(out); when that raises,
\* tmp = ast.literal_eval(out).
parsed_output(o) ==
    IF loads_display(o.items).t # "fail" THEN loads_display(o.items)
    ELSE literal_eval(o.items)

\* Line 128: main begins with last_rolls = None.
initial_last_rolls(previous) == PyNone

\* Line 124: tools_schema.
DICE_TOOLS_SCHEMA == <<"roll_dice", "sum_dice">>

\* The handler of lines 176-188 without the append.
repair_failed_entries_none(call) == << >>

\* Lines 176-188: the entry appended when coerce_rolls raised.
repair_failed_entries(call) ==
    <<Msg("tool", call.id, ContentValidation, << >>)>>

\* Lines 249-260 without the test of line 248: the output of any tool is
\* remembered.
remembered_of_any_tool(fn, o, memory) ==
    IF is_int_list(parsed_output(o)) THEN parsed_output(o) ELSE memory

\* Lines 248-260: the rolls remembered after a call.
remembered(fn, o, memory) ==
    IF fn = "roll_dice" /\ is_int_list(parsed_output(o))
    THEN parsed_output(o) ELSE memory

InitAgent ==
    /\ agPc = "tools"
    /\ messages = <<Msg("system", 0, ContentText, << >>),
                    Msg("user", 0, ContentText, << >>)>>
    /\ agent_calls = << >>
    /\ ag_ix = 1
    /\ rolls_memory = PyNone
    /\ executed = << >>
    /\ handled = 0
    /\ ollama_sent = << >>
    /\ repair_failed = << >>
    /\ call_failures = << >>
    /\ outs = << >>
    /\ ollama_calls = << >>
    /\ runs = 0

IdleAgent == InitAgent

\* Lines 155-159: `if not tool_calls: ... break`, the only way out of the
\* `while True` of line 141.
loop_never_ends(asked) == FALSE
loop_ends(asked) == asked = << >>

\* Lines 141-159: every call of the last reply has been handled; the LLM
\* is asked with the transcript (at most MaxAgentCalls + 1 times in the
\* model: every reply but the last one of a run asks for a call).  The request raises, or the reply is
\* appended and either ends the run or asks for tool calls.
AgentAskLlm ==
    /\ agPc = "tools"
    /\ ag_ix > Len(agent_calls)
    /\ Len(ollama_calls) <= MaxAgentCalls
    /\ ollama_sent' = Append(ollama_sent, messages)
    /\ \/ /\ agPc' = "crashed"
          /\ UNCHANGED <<messages, agent_calls, ag_ix, handled>>
       \/ /\ messages' = Append(messages, Msg("assistant", 0, ContentText, << >>))
          /\ IF loop_ends(<< >>)
             THEN /\ agPc' = "done"
                  /\ UNCHANGED <<agent_calls, ag_ix>>
             ELSE /\ agPc' = "tools"
                  /\ agent_calls' = << >>
                  /\ ag_ix' = 1
          /\ UNCHANGED handled
       \/ \E shapes \in SeqsUpTo(AgentCallShapes, MaxAgentCalls - handled) :
             /\ shapes # << >>
             /\ agent_calls' =
                   [k \in 1..Len(shapes) |->
                       AgentCall(handled + k, shapes[k].fn, shapes[k].args,
                                 shapes[k].rolls)]
             /\ messages' =
                   Append(messages,
                          Msg("assistant", 0, ContentText,
                              [k \in 1..Len(shapes) |-> handled + k]))
             /\ handled' = handled + Len(shapes)
             /\ ag_ix' = 1
             /\ UNCHANGED agPc
    /\ ollama_calls' =
          Append(ollama_calls,
                 [tools |-> DICE_TOOLS_SCHEMA, ok |-> agPc' # "crashed",
                  calls |-> IF handled' > handled /\ agPc' # "crashed"
                            THEN handled' - handled ELSE 0])
    /\ UNCHANGED <<rolls_memory, executed, repair_failed, call_failures, outs,
                   runs>>
    /\ UNCHANGED <<sseVars, pipeVars, regVars, coerceVars, sessVars, chatVars, moreVars>>

\* Lines 161-191: the next call of the reply.  For sum_dice the rolls are
\* repaired first: args.get raises AttributeError when the arguments are
\* no object; when coerce_rolls raises, the validation entry is appended
\* and the loop continues with the next call; otherwise, and for any other
\* tool, the call is sent with mcp.call_tool.
AgentNextCall ==
    /\ agPc = "tools"
    /\ ag_ix <= Len(agent_calls)
    /\ LET call   == agent_calls[ag_ix]
           repair == coerce_rolls(rolls_arg(call), rolls_memory)
       IN  IF call.fn = "sum_dice" /\ call.args = "nondict"
           THEN /\ agPc' = "crashed"
                /\ UNCHANGED <<messages, ag_ix, executed, repair_failed>>
           ELSE IF call.fn = "sum_dice" /\ repair.raised
           THEN /\ messages' = messages \o repair_failed_entries(call)
                /\ repair_failed' = Append(repair_failed, call.id)
                /\ ag_ix' = ag_ix + 1
                /\ UNCHANGED <<agPc, executed>>
           ELSE /\ executed' =
                      Append(executed,
                             [id |-> call.id, fn |-> call.fn,
                              rolls |-> IF call.fn = "sum_dice"
                                        THEN repair.out ELSE rolls_arg(call)])
                /\ agPc' = "in_call"
                /\ UNCHANGED <<messages, ag_ix, repair_failed>>
    /\ UNCHANGED <<agent_calls, rolls_memory, handled, ollama_sent,
                   call_failures, outs, ollama_calls, runs>>
    /\ UNCHANGED <<sseVars, pipeVars, regVars, coerceVars, sessVars, chatVars, moreVars>>

\* Lines 191-268: mcp.call_tool returns; its output is remembered when it
\* is the rolls of roll_dice, and appended as the call's tool entry.
AgentCallReturns ==
    /\ agPc = "in_call"
    /\ \E o \in ToolOutputs :
          LET call == agent_calls[ag_ix] IN
          /\ rolls_memory' = remembered(call.fn, o, rolls_memory)
          /\ outs' = Append(outs, [id |-> call.id, fn |-> call.fn, out |-> o])
          /\ messages' = Append(messages,
                                Msg("tool", call.id, ContentResult, << >>))
    /\ ag_ix' = ag_ix + 1
    /\ agPc' = "tools"
    /\ UNCHANGED <<agent_calls, executed, handled, ollama_sent, repair_failed,
                   call_failures, ollama_calls, runs>>
    /\ UNCHANGED <<sseVars, pipeVars, regVars, coerceVars, sessVars, chatVars, moreVars>>

\* Line 191: mcp.call_tool raises (the server reports an error, or the
\* call cannot complete); nothing in main catches it.
AgentCallRaises ==
    /\ agPc = "in_call"
    /\ call_failures' = Append(call_failures, agent_calls[ag_ix].id)
    /\ agPc' = "crashed"
    /\ UNCHANGED <<messages, agent_calls, ag_ix, rolls_memory, executed,
                   handled, ollama_sent, repair_failed, outs, ollama_calls,
                   runs>>
    /\ UNCHANGED <<sseVars, pipeVars, regVars, coerceVars, sessVars, chatVars, moreVars>>

\* Lines 116-139 and 271-272: main is run again (a new session) after a
\* run ended; its transcript and its last_rolls are new.
AgentMain ==
    /\ agPc \in {"done", "crashed"}
    /\ runs < MaxRuns
    /\ runs' = runs + 1
    /\ agPc' = "tools"
    /\ messages' = <<Msg("system", 0, ContentText, << >>),
                     Msg("user", 0, ContentText, << >>)>>
    /\ rolls_memory' = initial_last_rolls(rolls_memory)
    /\ agent_calls' = << >>
    /\ ag_ix' = 1
    /\ executed' = << >>
    /\ handled' = 0
    /\ ollama_sent' = << >>
    /\ repair_failed' = << >>
    /\ call_failures' = << >>
    /\ outs' = << >>
    /\ ollama_calls' = << >>
    /\ UNCHANGED <<sseVars, pipeVars, regVars, coerceVars, sessVars, chatVars, moreVars>>

(***************************************************************************)
(* SpecWrap: wrap_sum_and_track_rolls of math_client_langchain.py on one   *)
(* list of tools, and invocations of the tools it returns.                 *)
(***************************************************************************)
MaxInvokes == 2   \* invocations of the returned tools

\* The tools given: every list without repetition of up to three of these
\* names.
WrapToolNames == {"roll_dice", "sum_dice", "echo"}
WrapToolLists ==
    { q \in SeqsUpTo(WrapToolNames, 3) :
         \A i, j \in 1..Len(q) : i # j => q[i] # q[j] }
WrapRollsArgs == { PyNone, PyList(<<El("int", 1)>>) }
NoTool == "none"

\* Lines 86-152: the tool made for t.  mk_passthrough binds the tool as its
\* parameter tool_obj; roll_arun and sum_arun name the variable t of the
\* enclosing function.
wrapper_for(name) ==
    [name |-> name,
     kind |-> IF name = "roll_dice" THEN "roll"
              ELSE IF name = "sum_dice" THEN "sum" ELSE "passthrough",
     tool_obj |-> IF name \in {"roll_dice", "sum_dice"} THEN NoTool ELSE name]

\* The tool a wrapper invokes: tool_obj (line 92), or what the variable t
\* holds when the wrapper runs (lines 105 and 131).
invoked_tool(wrapper, t_now) ==
    IF wrapper.kind = "passthrough" THEN wrapper.tool_obj ELSE t_now

\* update_last_rolls, lines 72-82.
update_last_rolls(o, box) ==
    IF is_int_list(parsed_output(o)) THEN parsed_output(o) ELSE box

InitWrap ==
    /\ wrapPc = "start"
    /\ wrap_tools \in WrapToolLists
    /\ wrapped = << >>
    /\ loop_t = NoTool
    /\ last_rolls_box = PyNone
    /\ invoked = << >>

IdleWrap ==
    /\ wrapPc = "start"
    /\ wrap_tools = << >>
    /\ wrapped = << >>
    /\ loop_t = NoTool
    /\ last_rolls_box = PyNone
    /\ invoked = << >>

\* wrap_sum_and_track_rolls, lines 69-154: the loop over the tools has
\* run, t holds the last of them, and the wrappers are returned.
WrapSumAndTrackRolls ==
    /\ wrapPc = "start"
    /\ wrapped' = [k \in 1..Len(wrap_tools) |-> wrapper_for(wrap_tools[k])]
    /\ loop_t' = IF wrap_tools = << >> THEN NoTool
                 ELSE wrap_tools[Len(wrap_tools)]
    /\ wrapPc' = "wrapped"
    /\ UNCHANGED <<wrap_tools, last_rolls_box, invoked>>
    /\ UNCHANGED <<sseVars, pipeVars, regVars, restVars, hotelVars>>

\* One of the returned tools is invoked (lines 91-92, 104-107, 122-131).
\* The sum_dice wrapper returns the validation text without a call when
\* coerce_rolls raises; the roll_dice wrapper gives the output of its call
\* to update_last_rolls.
InvokeWrapped ==
    /\ wrapPc = "wrapped"
    /\ Len(invoked) < MaxInvokes
    /\ \E k \in 1..Len(wrapped) : \E rolls \in WrapRollsArgs :
       \E o \in ToolOutputs :
          LET w == wrapped[k]
              repair == coerce_rolls(rolls, last_rolls_box)
          IN  IF w.kind = "sum" /\ repair.raised
              THEN /\ invoked' = Append(invoked,
                                        [wrapper |-> w.name, called |-> NoTool])
                   /\ UNCHANGED last_rolls_box
              ELSE /\ invoked' =
                         Append(invoked,
                                [wrapper |-> w.name,
                                 called |-> invoked_tool(w, loop_t)])
                   /\ last_rolls_box' =
                         IF w.kind = "roll"
                         THEN update_last_rolls(o, last_rolls_box)
                         ELSE last_rolls_box
    /\ UNCHANGED <<wrapPc, wrap_tools, wrapped, loop_t>>
    /\ UNCHANGED <<sseVars, pipeVars, regVars, restVars, hotelVars>>

(***************************************************************************)
(* SpecHotel: the tools of hotel.py, called from several threads.  Every   *)
(* tool body runs under `with _lock, get_conn() as conn`: the lock is      *)
(* taken, the statements run in one transaction, and the lock is given    *)
(* back when the body returns or raises (the transaction is then rolled    *)
(* back).                                                                  *)
(***************************************************************************)
MaxHotelCalls == 3   \* tool calls begun in one run

\* init_db, lines 80-84: the rooms a new database is seeded with.
SeedRooms ==
    << [room_number |-> "101", capacity |-> 2],
       [room_number |-> "102", capacity |-> 2],
       [room_number |-> "103", capacity |-> 3],
       [room_number |-> "104", capacity |-> 2],
       [room_number |-> "105", capacity |-> 4],
       [room_number |-> "201", capacity |-> 2],
       [room_number |-> "202", capacity |-> 2],
       [room_number |-> "203", capacity |-> 3],
       [room_number |-> "204", capacity |-> 2],
       [room_number |-> "205", capacity |-> 4] >>

Threads  == {"t1", "t2"}
NoThread == "none"

\* A date is the text YYYY-MM-DD; the model keeps the two digits of the day
\* and leaves out the common "2025-01-".
Date(day) == <<day \div 10, day % 10>>
Dates == { Date(9), Date(10), Date(11) }
day_of(text) == 10 * text[1] + text[2]

\* a < b and a <= b on texts of the same length, character by character
\* (Python's str comparison and SQLite's comparison of TEXT values).
RECURSIVE text_less(_, _)
text_less(a, b) ==
    IF a = << >> \/ b = << >> THEN a = << >> /\ b # << >>
    ELSE IF a[1] # b[1] THEN a[1] < b[1]
    ELSE text_less(Tail(a), Tail(b))
text_le(a, b) == a = b \/ text_less(a, b)

\* date_order_ok, lines 94-96.
date_order_ok(check_in, check_out) == text_less(check_in, check_out)

\* The arguments of a tool call; a tool reads only its own.
HotelArgs(room_number, age, num_guests, check_in, check_out, id, only) ==
    [room_number |-> room_number, name |-> "ann", age |-> age,
     num_guests |-> num_guests, check_in |-> check_in,
     check_out |-> check_out, reservation_id |-> id,
     available_only |-> only]
NoArgs == HotelArgs("", 0, 0, << >>, << >>, 0, FALSE)
Guests == { <<30, 2>>, <<0, 2>>, <<30, 0>>, <<30, 3>> }
BookArgs ==
    { HotelArgs(r, g[1], g[2], ci, co, 0, FALSE) :
         r \in {"101", "103", "999"}, g \in Guests, ci \in Dates,
         co \in Dates }
EndArgs  == { HotelArgs("", 0, 0, << >>, << >>, id, FALSE) :
                 id \in 1..MaxHotelCalls }
ListArgs == { HotelArgs("", 0, 0, << >>, << >>, 0, only) :
                 only \in BOOLEAN }
HotelCalls ==
    { [op |-> "book_room", a |-> a] : a \in BookArgs }
    \cup { [op |-> o, a |-> a] :
              o \in {"cancel_reservation", "checkout"}, a \in EndArgs }
    \cup { [op |-> "list_rooms", a |-> a] : a \in ListArgs }

HCall(pc, op, a, res, rows) ==
    [pc |-> pc, op |-> op, a |-> a, res |-> res, rows |-> rows]
NoHCall == HCall("idle", "", NoArgs, "", << >>)

\* book_room, lines 197-203: the checks made before the lock is taken.
book_room_arguments_error(a) ==
    IF ~date_order_ok(a.check_in, a.check_out) THEN "date_order"
    ELSE IF a.age <= 0 THEN "age"
    ELSE IF a.num_guests <= 0 THEN "num_guests"
    ELSE "ok"

\* room_by_number, lines 98-101: the room_id, 0 when there is no such room.
room_by_number(table, room_number) ==
    IF \E i \in DOMAIN table : table[i].room_number = room_number
    THEN CHOOSE i \in DOMAIN table : table[i].room_number = room_number
    ELSE 0

\* reservation_overlap_exists, lines 118-130:
\* status = 'active' AND NOT (check_out <= ? OR check_in >= ?).
reservation_overlap_exists(table, room_id, check_in, check_out) ==
    \E i \in 1..Len(table) :
       /\ table[i].room_id = room_id
       /\ table[i].status = "active"
       /\ ~(text_le(table[i].check_out, check_in)
            \/ text_le(check_out, table[i].check_in))

\* book_room, lines 207-216: the checks made under the lock.
book_room_rejection_without_capacity(roomTable, resTable, a) ==
    LET r == room_by_number(roomTable, a.room_number) IN
    IF r = 0 THEN "no_room"
    ELSE IF reservation_overlap_exists(resTable, r, a.check_in, a.check_out)
    THEN "overlap"
    ELSE "ok"
book_room_rejection(roomTable, resTable, a) ==
    LET r == room_by_number(roomTable, a.room_number) IN
    IF r = 0 THEN "no_room"
    ELSE IF a.num_guests > roomTable[r].capacity THEN "capacity"
    ELSE IF reservation_overlap_exists(resTable, r, a.check_in, a.check_out)
    THEN "overlap"
    ELSE "ok"

\* user_get_or_create, lines 103-116: the users table afterwards and the
\* user_id returned.
user_get_or_create(table, name, age, num_guests) ==
    LET row == [name |-> name, age |-> age, num_guests |-> num_guests] IN
    IF \E i \in 1..Len(table) : table[i] = row
    THEN [users |-> table,
          user_id |-> CHOOSE i \in 1..Len(table) :
                         table[i] = row /\ \A j \in 1..(i - 1) : table[j] # row]
    ELSE [users |-> Append(table, row), user_id |-> Len(table) + 1]

\* update_room_status, lines 132-143.
update_room_status_occupied(roomTable, resTable, room_id) ==
    [roomTable EXCEPT ![room_id].status = "occupied"]
update_room_status(roomTable, resTable, room_id) ==
    LET c == Cardinality({ i \in 1..Len(resTable) :
                              /\ resTable[i].room_id = room_id
                              /\ resTable[i].status = "active" })
    IN  [roomTable EXCEPT
           ![room_id].status = IF c > 0 THEN "occupied" ELSE "available"]

\* list_rooms, lines 156-160: the room numbers of the rows returned, in
\* the order of room_number (the order of the seeded rows).
list_rooms(roomTable, available_only) ==
    LET all == [i \in DOMAIN roomTable |-> roomTable[i].room_number]
        Available(n) ==
           roomTable[room_by_number(roomTable, n)].status = "available"
    IN  IF available_only THEN SelectSeq(all, Available) ELSE all

\* cancel_reservation and checkout, lines 281-286 and 311-316.
end_rejection_of_missing_only(table, id) ==
    IF id \notin 1..Len(table) THEN "not_found" ELSE "ok"
end_rejection(table, id) ==
    IF id \notin 1..Len(table) THEN "not_found"
    ELSE IF table[id].status # "active" THEN "not_active"
    ELSE "ok"

\* Lines 288 and 318: the status the tool writes.
ended_status(op) ==
    IF op = "cancel_reservation" THEN "canceled" ELSE "checked_out"

\* `with _lock`: threading.Lock is taken only when no thread holds it.
lock_never_held(holder) == TRUE
lock_is_free(holder) == holder = NoThread

\* init_db on a new database, lines 43-85.
InitHotel ==
    /\ rooms = [i \in 1..Len(SeedRooms) |->
                   [room_number |-> SeedRooms[i].room_number,
                    capacity |-> SeedRooms[i].capacity,
                    status |-> "available"]]
    /\ users = << >>
    /\ reservations = << >>
    /\ lock = NoThread
    /\ hcalls = [t \in Threads |-> NoHCall]
    /\ hotel_calls = 0

IdleHotel ==
    /\ rooms = << >>
    /\ users = << >>
    /\ reservations = << >>
    /\ lock = NoThread
    /\ hcalls = [t \in Threads |-> NoHCall]
    /\ hotel_calls = 0

IdleMore == IdleHotel /\ IdleWrap

Finished(t, res, rows) ==
    [hcalls EXCEPT ![t] = HCall(IF res = "ok" THEN "returned" ELSE "rejected",
                                @.op, NoArgs, res, rows)]

\* A thread begins a tool call.  book_room checks its arguments first
\* (lines 197-203) and raises without taking the lock; every tool then
\* waits for _lock.
HotelCall(t) ==
    /\ hcalls[t].pc \in {"idle", "returned", "rejected"}
    /\ hotel_calls < MaxHotelCalls
    /\ hotel_calls' = hotel_calls + 1
    /\ \E c \in HotelCalls :
          LET e == IF c.op = "book_room"
                   THEN book_room_arguments_error(c.a) ELSE "ok"
          IN  hcalls' =
                 [hcalls EXCEPT
                    ![t] = IF e = "ok"
                           THEN HCall("waiting", c.op, c.a, "", << >>)
                           ELSE HCall("rejected", c.op, NoArgs, e, << >>)]
    /\ UNCHANGED <<rooms, users, reservations, lock>>
    /\ UNCHANGED <<sseVars, pipeVars, regVars, restVars, wrapVars>>

\* `with _lock, get_conn() as conn:` (lines 154, 205, 279, 309).
HotelAcquire(t) ==
    /\ hcalls[t].pc = "waiting"
    /\ lock_is_free(lock)
    /\ lock' = t
    /\ hcalls' = [hcalls EXCEPT ![t].pc = "locked"]
    /\ UNCHANGED <<rooms, users, reservations, hotel_calls>>
    /\ UNCHANGED <<sseVars, pipeVars, regVars, restVars, wrapVars>>

\* book_room, lines 206-216: the room, its capacity and the overlap are
\* checked; a raise leaves the with statement, which rolls back and gives
\* the lock back.
BookCheck(t) ==
    /\ hcalls[t].pc = "locked"
    /\ hcalls[t].op = "book_room"
    /\ LET e == book_room_rejection(rooms, reservations, hcalls[t].a) IN
       IF e = "ok"
       THEN /\ hcalls' = [hcalls EXCEPT ![t].pc = "checked"]
            /\ UNCHANGED lock
       ELSE /\ hcalls' = Finished(t, e, << >>)
            /\ lock' = NoThread
    /\ UNCHANGED <<rooms, users, reservations, hotel_calls>>
    /\ UNCHANGED <<sseVars, pipeVars, regVars, restVars, wrapVars>>

\* book_room, lines 218-246: the user is found or made, the reservation
\* inserted, the room's status updated, the transaction committed and the
\* new row returned.
BookWrite(t) ==
    /\ hcalls[t].pc = "checked"
    /\ LET a == hcalls[t].a
           r == room_by_number(rooms, a.room_number)
           u == user_get_or_create(users, a.name, a.age, a.num_guests)
           inserted ==
              Append(reservations,
                     [room_id |-> r, user_id |-> u.user_id,
                      check_in |-> a.check_in, check_out |-> a.check_out,
                      status |-> "active"])
       IN  /\ users' = u.users
           /\ reservations' = inserted
           /\ rooms' = update_room_status(rooms, inserted, r)
    /\ hcalls' = Finished(t, "ok", << >>)
    /\ lock' = NoThread
    /\ UNCHANGED hotel_calls
    /\ UNCHANGED <<sseVars, pipeVars, regVars, restVars, wrapVars>>

\* cancel_reservation and checkout, lines 279-302 and 309-332: the
\* reservation is looked up; a missing or not active one raises, an active
\* one gets its new status and its room's status is updated.
EndReservation(t) ==
    /\ hcalls[t].pc = "locked"
    /\ hcalls[t].op \in {"cancel_reservation", "checkout"}
    /\ LET id == hcalls[t].a.reservation_id
           e  == end_rejection(reservations, id)
       IN  IF e = "ok"
           THEN LET updated ==
                       [reservations EXCEPT
                          ![id].status = ended_status(hcalls[t].op)]
                IN  /\ reservations' = updated
                    /\ rooms' = update_room_status(rooms, updated,
                                                   reservations[id].room_id)
                    /\ hcalls' = Finished(t, "ok", << >>)
           ELSE /\ hcalls' = Finished(t, e, << >>)
                /\ UNCHANGED <<rooms, reservations>>
    /\ lock' = NoThread
    /\ UNCHANGED <<users, hotel_calls>>
    /\ UNCHANGED <<sseVars, pipeVars, regVars, restVars, wrapVars>>

\* list_rooms, lines 154-160.
ListRooms(t) ==
    /\ hcalls[t].pc = "locked"
    /\ hcalls[t].op = "list_rooms"
    /\ hcalls' = Finished(t, "ok",
                          list_rooms(rooms, hcalls[t].a.available_only))
    /\ lock' = NoThread
    /\ UNCHANGED <<rooms, users, reservations, hotel_calls>>
    /\ UNCHANGED <<sseVars, pipeVars, regVars, restVars, wrapVars>>

(***************************************************************************)
(* The specifications.                                                     *)
(***************************************************************************)
IdleSse  == InitSse
IdlePipe == InitPipe
IdleReg  ==
    /\ variant = "llm"
    /\ server_paths = << >>
    /\ task = << >>
    /\ data = << >>
    /\ mapping = EmptyDict
    /\ sessions = EmptyDict
    /\ clients = 0
    /\ gather = "running"
    /\ returned = EmptyDict
    /\ sent = [u \in Urls |-> << >>]
    /\ writes = [u \in Urls |-> 0]
    /\ sessionWrites = [u \in Urls |-> 0]
    /\ calls = 0
    /\ called = NoCall
    /\ openai_tools = << >>
    /\ closed = {}
    /\ cleaned = FALSE

NextSse == PostMcpRequest

NextPipe ==
    \/ Start
    \/ SendNotStarted
    \/ Send
    \/ SendBrokenPipe
    \/ ReadLine
    \/ ReadEof
    \/ PeerReply
    \/ PeerStray
    \/ PeerStderr
    \/ PeerExit

NextReg ==
    \/ \E i \in Indices : FetchStart(i)
    \/ \E i \in Indices : FetchComplete(i)
    \/ GatherReturn
    \/ CallTool
    \/ CreateOpenaiTools
    \/ Cleanup

IdleRest == IdleCoerce /\ IdleSession /\ IdleChat /\ IdleAgent /\ IdleMore

InitSpecSse  == InitSse /\ IdlePipe /\ IdleReg /\ IdleRest
InitSpecPipe == IdleSse /\ InitPipe /\ IdleReg /\ IdleRest
InitSpecReg  == IdleSse /\ IdlePipe /\ InitReg /\ IdleRest
IdleFirst == IdleSse /\ IdlePipe /\ IdleReg

InitSpecCoerce  == IdleFirst /\ InitCoerce /\ IdleSession /\ IdleChat /\ IdleAgent /\ IdleMore
InitSpecSession == IdleFirst /\ IdleCoerce /\ InitSession /\ IdleChat /\ IdleAgent /\ IdleMore
InitSpecChat    == IdleFirst /\ IdleCoerce /\ IdleSession /\ InitChat /\ IdleAgent /\ IdleMore
InitSpecAgent   == IdleFirst /\ IdleCoerce /\ IdleSession /\ IdleChat /\ InitAgent /\ IdleMore

SpecSse  == InitSpecSse /\ [][NextSse]_vars
SpecPipe == InitSpecPipe /\ [][NextPipe]_vars
SpecReg  == InitSpecReg /\ [][NextReg]_vars

NextCoerce == CoerceRolls
SpecCoerce == InitSpecCoerce /\ [][NextCoerce]_vars

NextSession ==
    \/ InitializeSend
    \/ InitializeSendRaises
    \/ InitializeNotify
    \/ ToolsListAttempt
    \/ ToolsCall
SpecSession == InitSpecSession /\ [][NextSession]_vars

NextChat ==
    \/ ResetConversation
    \/ ChatAskLlm
    \/ ChatNextCall
    \/ ChatCallReturns
    \/ ChatFinalLlm
SpecChat == InitSpecChat /\ [][NextChat]_vars

NextAgent ==
    \/ AgentMain
    \/ AgentAskLlm
    \/ AgentNextCall
    \/ AgentCallReturns
    \/ AgentCallRaises
SpecAgent == InitSpecAgent /\ [][NextAgent]_vars

\* The loop of main runs on: a for loop step, the await of mcp.call_tool
\* and the request to the LLM are each taken when they can be.  Nothing
\* makes main run again.
SpecAgentFair ==
    /\ InitSpecAgent
    /\ [][NextAgent]_vars
    /\ WF_vars(AgentAskLlm)
    /\ WF_vars(AgentNextCall)
    /\ WF_vars(AgentCallReturns \/ AgentCallRaises)

NextHotel ==
    \/ \E t \in Threads : HotelCall(t)
    \/ \E t \in Threads : HotelAcquire(t)
    \/ \E t \in Threads : BookCheck(t)
    \/ \E t \in Threads : BookWrite(t)
    \/ \E t \in Threads : EndReservation(t)
    \/ \E t \in Threads : ListRooms(t)
InitSpecHotel == IdleFirst /\ IdleCoerce /\ IdleSession /\ IdleChat /\ IdleAgent /\ InitHotel /\ IdleWrap
SpecHotel == InitSpecHotel /\ [][NextHotel]_vars

NextWrap ==
    \/ WrapSumAndTrackRolls
    \/ InvokeWrapped
InitSpecWrap == IdleFirst /\ IdleCoerce /\ IdleSession /\ IdleChat /\ IdleAgent /\ IdleHotel /\ InitWrap
SpecWrap == InitSpecWrap /\ [][NextWrap]_vars

(***************************************************************************)
(* Properties of the frame decoder and of _post_mcp_request (SpecSse).     *)
(***************************************************************************)
RECURSIVE Ascending(_)
Ascending(S) ==
    IF S = {} THEN << >>
    ELSE LET m == CHOOSE x \in S : \A y \in S : x <= y IN
         <<m>> \o Ascending(S \ {m})

\* The events of a body, read off its lines: an event ends at each blank
\* line and at the end of the input, and is made of the "data:" lines since
\* the event before it.
EventEnds(text) ==
    { i \in 1..Len(text) : text[i] = BlankLine } \cup { Len(text) + 1 }
EventStart(text, e) ==
    LET before == { i \in EventEnds(text) : i < e } IN
    IF before = {} THEN 0
    ELSE CHOOSE i \in before : \A j \in before : j <= i
EventDataLines(text, e) ==
    Ascending({ i \in (EventStart(text, e) + 1)..(e - 1) : text[i][1] = "data" })
EventText(text, e) ==
    LET at == EventDataLines(text, e) IN
    Concat([k \in 1..Len(at) |-> text[at[k]][2]])
EventIsEmitted(text, e) ==
    /\ EventDataLines(text, e) # << >>
    /\ json_loads(EventText(text, e)) # ParseFail
EventsOf(text) ==
    LET ends == Ascending({ e \in EventEnds(text) : EventIsEmitted(text, e) }) IN
    [k \in 1..Len(ends) |-> json_loads(EventText(text, ends[k]))]

IsEventStream ==
    /\ httpPc = "done"
    /\ response.kind = "ok"
    /\ response.ctype = "text/event-stream"

BearsResult(ev) ==
    IsDict(ev) /\ (HasKey(ev, "result") \/ HasKey(ev, "error"))

\* C2: for an event-stream reply, _post_mcp_request returns the last decoded
\* event that contains a "result" or an "error" key, whatever events come
\* before or after it, and the synthesized error "No result in SSE stream"
\* when no decoded event contains either key.
C2_LastResultBearingEventWins ==
    IsEventStream =>
        LET bearing == { i \in 1..Len(events) : BearsResult(events[i]) } IN
        reply = IF bearing = {} THEN ErrorObj(ErrNoResult)
                ELSE events[CHOOSE i \in bearing : \A j \in bearing : j <= i]

\* The reply is a document or an event of the response, not an error object
\* made up by _post_mcp_request.
ReplyIsFromPeer ==
    /\ httpPc = "done"
    /\ response.kind = "ok"
    /\ BearsResult(reply)
    /\ IF response.ctype = "text/event-stream"
       THEN reply \in Range(events)
       ELSE reply = response_json(response)

\* C5: on the HTTP transport the reply accepted for a request carries the id
\* of the request that was posted; a result or error for another id is not
\* taken as the call's reply.
C5_HttpReplyCarriesRequestId ==
    ReplyIsFromPeer => Get(reply, "id", NoId) = payload.id

(***************************************************************************)
(* Properties of MCPClientStdio._send (SpecPipe).                          *)
(***************************************************************************)
EndedByLine(o) == o.kind \in {"result", "rpc_error"}

\* The line parses as a JSON object whose id is i.
CarriesId(line, i) ==
    LET msg == json_loads(line.text) IN
    /\ msg.t = "obj"
    /\ \E p \in msg.kv : p[1] = "id" /\ p[2] = i

\* The outcomes of the request written at position k of stdin.
OutcomesOf(k) == { n \in 1..Len(outcomes) : outcomes[n].pos = k }

\* C4: _send resolves a request only from a line that parses as a JSON
\* object whose id is the id of the request just sent, and drops every line
\* read before it that is not JSON or carries another id; so each request is
\* resolved exactly once (by its result, its RPC error or a transport
\* failure) and an answer the peer wrote to one request never resolves
\* another.
C4_ResolvedOnlyByOwnLine ==
    /\ \A n \in 1..Len(outcomes) :
          LET o == outcomes[n] IN
          /\ o.pos > 0 => o.id = stdin[o.pos].id
          /\ EndedByLine(o) => o.pos > 0 /\ CarriesId(o.by, o.id)
          /\ EndedByLine(o) /\ o.by.for > 0 => o.by.for = o.pos
          /\ EndedByLine(o) =>
                o.kind = IF HasKey(json_loads(o.by.text), "error")
                         THEN "rpc_error" ELSE "result"
          /\ ~EndedByLine(o) => o.by = NoLine
    /\ lastDropped # NoLine =>
          pipePc = "reading" /\ ~CarriesId(lastDropped, req_id)
    /\ \A k \in 1..Len(stdin) :
          Cardinality(OutcomesOf(k)) =
             IF pipePc = "reading" /\ k = Len(stdin) THEN 0 ELSE 1

\* The first request got its own answer; the second _send has read and
\* dropped a repeated answer to the first and is still waiting.
C4_Witness ==
    /\ Len(outcomes) = 1
    /\ outcomes[1].kind = "result"
    /\ outcomes[1].by = PeerLine(ResultEvent(1, 7), 1)
    /\ pipePc = "reading"
    /\ req_id = 2
    /\ lastDropped = PeerLine(ErrorEvent(1, 9), 1)

TransportFailures ==
    { k \in 1..Len(outcomes) : outcomes[k].kind = "transport" }

\* C6: when the peer's output ends before a line with the matching id has
\* been read, _send fails with a transport error whose message includes the
\* text captured from the peer's error stream; the error stream is read in
\* no other case.
C6_StderrOnlyOnEndOfOutput ==
    /\ [](stderrReads = Cardinality(TransportFailures))
    /\ [][ /\ ( /\ pipePc = "reading"
                 /\ stdout = << >>
                 /\ stdoutClosed
                 /\ pipePc' = "idle" )
              => /\ Len(outcomes') = Len(outcomes) + 1
                 /\ outcomes'[Len(outcomes')].kind = "transport"
                 /\ outcomes'[Len(outcomes')].id = req_id
                 /\ outcomes'[Len(outcomes')].text = stderr
           /\ stderrReads' # stderrReads
              => /\ pipePc = "reading"
                 /\ stdout = << >>
                 /\ stdoutClosed
                 /\ stderrReads' = stderrReads + 1 ]_vars

\* A _send failed at the end of the peer's output and its message carries
\* what the peer had written to its error stream.
C6_Witness ==
    /\ Len(outcomes) = 1
    /\ outcomes[1].kind = "transport"
    /\ outcomes[1].text = "Traceback"
    /\ stderrReads = 1

(***************************************************************************)
(* Properties of the registry build and of what is made from its map       *)
(* (SpecReg).                                                              *)
(***************************************************************************)
StrictlyIncreasingIds(reqs) ==
    \A k, l \in 1..Len(reqs) : k < l => reqs[k].id < reqs[l].id

\* C3: on every connection the correlation ids of the requests sent are
\* strictly increasing, so no id is used by two requests: on the pipe of
\* MCPClientStdio and on the connection SimpleHTTPMCPClient keeps for each
\* endpoint URL.
C3_IdsStrictlyIncreasing ==
    /\ StrictlyIncreasingIds(stdin)
    /\ \A u \in Urls : StrictlyIncreasingIds(sent[u])

\* The reply of a discovery task is a failure: an error reply (which is
\* what a connect error, an error status and an unreadable body become),
\* a reply that is no object, or a result that is no object.
ReplyFailed(d) ==
    \/ ~IsDict(d)
    \/ HasKey(d, "error")
    \/ HasKey(d, "result") /\ result_value(Get(d, "result", 0)).shape # "object"

\* The tools an endpoint that did not fail listed in its reply.
ToolsListed(d) ==
    IF HasKey(d, "result") THEN result_value(Get(d, "result", 0)).tools
    ELSE << >>

TimesConfigured(u) == Cardinality({ i \in Indices : server_paths[i] = u })

C8_EntryForEveryConfiguredEndpoint ==
    gather = "returned" =>
       /\ \A i \in Indices : task[i] = "done"
       /\ \A i \in Indices : DictHas(returned, server_paths[i])
       /\ mapping = returned

\* C8, amended: the build returns only when the task of every configured
\* endpoint has finished; the returned map has an entry for every
\* configured http(s) endpoint and for nothing that was not configured; an
\* endpoint spec that is not an http(s) URL has no entry in the map of
\* connect_to_multiple_servers and an error entry in the map of
\* connect_and_list; no entry is added or changed after the return.
C8_EntryForEveryHttpEndpoint ==
    gather = "returned" =>
       /\ \A i \in Indices : task[i] = "done"
       /\ \A i \in Indices :
             LET u == server_paths[i] IN
             /\ IsHttp(u) => DictHas(returned, u)
             /\ (~IsHttp(u) /\ variant = "llm") => ~DictHas(returned, u)
             /\ (~IsHttp(u) /\ variant = "llm2") =>
                   /\ DictHas(returned, u)
                   /\ returned.val[u] = ErrorEntry(ErrNotHttp)
       /\ Range(returned.keys) \subseteq Range(server_paths)
       /\ mapping = returned

\* connect_to_multiple_servers returned for a URL and a script path, and a
\* tool was called afterwards: the map holds the URL alone.
C8_Witness ==
    /\ gather = "returned"
    /\ variant = "llm"
    /\ server_paths = << <<"http://", "a">>, <<"", "server.py">> >>
    /\ returned.keys = << <<"http://", "a">> >>
    /\ calls = 1

\* C9: during a registry build, for every list of configured endpoints and
\* every interleaving of the tasks, each key of the result map and each key
\* of the session table is written exactly once.
C9_EachKeyWrittenOnce ==
    \A u \in Urls :
       /\ writes[u] = (IF DictHas(mapping, u) THEN 1 ELSE 0)
       /\ sessionWrites[u] = (IF DictHas(sessions, u) THEN 1 ELSE 0)

\* The first position of a URL in the configured list, and the 1-based
\* position of a key of the returned map among its keys taken in the
\* configured order.
FirstPosition(u) ==
    CHOOSE i \in Indices :
       server_paths[i] = u /\ \A j \in Indices : server_paths[j] = u => i <= j
ConfiguredRank(u) ==
    Cardinality({ k \in Range(returned.keys) :
                     FirstPosition(k) <= FirstPosition(u) })

\* C10: for a fixed list of configured endpoints the identifier of every
\* tool of the catalog is server<N>_<name> with N the 1-based position of
\* the owning endpoint in an order fixed by the configured list (the
\* endpoints of the map, in the order they were configured), whatever the
\* order in which the discovery tasks completed.
C10_IdentifierIndependentOfCompletionOrder ==
    \A k \in 1..Len(openai_tools) :
       \E i \in 1..Len(returned.keys) :
          LET owner == returned.keys[i] IN
          /\ SubSeq(openai_tools[k].description, 1, Len(server_tag(i))) =
                server_tag(i)
          /\ \E t \in 1..Len(returned.val[owner].tools) :
                openai_tools[k].name =
                   function_name(ConfiguredRank(owner),
                                 returned.val[owner].tools[t].name)

(***************************************************************************)
(* Properties of coerce_rolls (SpecCoerce).                                *)
(***************************************************************************)
\* A list whose items are all integers (as Python counts them: True and
\* False are integers).
HoldsIntegers(v) ==
    v.t = "list" /\ \A i \in 1..Len(v.items) : v.items[i].k \in {"int", "bool"}

\* The lists of integers of which the string is a display.
ListsDisplayedBy(v) ==
    { l \in { PyList(items) : items \in SeqsUpTo(Elements, MaxRolls) } :
         /\ HoldsIntegers(l)
         /\ v.t = "str"
         /\ \/ v.items = ListText(l.items)
            \/ l.items # << >> /\ v.items = ListTextTrailingComma(l.items) }

\* C16, as stated: coerce_rolls returns the value when it is a list of
\* integers; else the list the value displays when it is text that decodes
\* as a literal list of integers; else the cache when the cache holds a list
\* of integers; else it raises.
C16_CoercePriority ==
    coercePc = "done" =>
       coerced =
          IF HoldsIntegers(rolls_value) THEN Returned(rolls_value)
          ELSE IF ListsDisplayedBy(rolls_value) # {}
          THEN Returned(CHOOSE l \in ListsDisplayedBy(rolls_value) : TRUE)
          ELSE IF HoldsIntegers(last_rolls) THEN Returned(last_rolls)
          ELSE Raised

\* C16, amended: the same priority, with the cache returned only when it
\* holds a list of integers that is not empty; an empty cached list is
\* treated like no cache and the call raises.
C16_CoercePriorityNonEmptyCache ==
    coercePc = "done" =>
       coerced =
          IF HoldsIntegers(rolls_value) THEN Returned(rolls_value)
          ELSE IF ListsDisplayedBy(rolls_value) # {}
          THEN Returned(CHOOSE l \in ListsDisplayedBy(rolls_value) : TRUE)
          ELSE IF HoldsIntegers(last_rolls) /\ last_rolls.items # << >>
          THEN Returned(last_rolls)
          ELSE Raised

\* The text "[1,2,1]" was given while a list was cached: the decoded list
\* is returned, not the cache.
C16_Witness ==
    /\ coercePc = "done"
    /\ rolls_value = PyStr(ListText(<<El("int", 1), El("int", 2), El("int", 1)>>))
    /\ last_rolls = PyList(<<El("int", 2)>>)
    /\ coerced = Returned(PyList(<<El("int", 1), El("int", 2), El("int", 1)>>))

(***************************************************************************)
(* Properties of discovery and of the handshake (SpecSession, SpecReg).    *)
(***************************************************************************)
\* The reply of tools_list carries tool content in one of the three shapes.
CarriesToolsShape(shape, hasTools) ==
    shape = "array" \/ (shape = "object" /\ hasTools)

\* C13: a tools/list result given as a bare array, as {tools: [...]} or as
\* {cursor, tools: [...]} is normalized to the tool array it carries, the
\* same for the three shapes, by tools_list of the pipe client and by
\* fetch_server of the HTTP client.
C13_ShapesNormalizeAlike ==
    /\ listed.state = "ok" => listed.tools = listed.by.tools
    /\ listed.state = "raised" =>
          ~CarriesToolsShape(listed.by.shape, listed.by.hasTools)
    /\ \A i \in Indices :
          LET u == server_paths[i]
              r == result_value(Get(data[i], "result", 0))
          IN  ( /\ task[i] = "done"
                /\ IsHttp(u)
                /\ TimesConfigured(u) = 1
                /\ IsDict(data[i])
                /\ ~HasKey(data[i], "error")
                /\ HasKey(data[i], "result")
                /\ CarriesToolsShape(r.shape, r.hasTools) )
              => mapping.val[u] = Entry(r.tools)

IsDiscoveryOrCall(m) ==
    m.method \in {"tools/list", "list_tools", "tools/call", "direct"}

\* C14: for every endpoint, on either transport, the initialize request is
\* sent before the initialized notification and both before the first
\* tools/list; no tools/list or tools/call is sent to an endpoint that has
\* not been sent initialize.
C14_InitializeComesFirst ==
    /\ \A k \in 1..Len(wire) :
          /\ IsDiscoveryOrCall(wire[k]) =>
                \E j \in 1..(k - 1) : wire[j].method = "initialize"
          /\ wire[k].method = "initialized" =>
                /\ \E j \in 1..(k - 1) : wire[j].method = "initialize"
                /\ \A j \in 1..(k - 1) : ~IsDiscoveryOrCall(wire[j])
    /\ \A u \in Urls : \A k \in 1..Len(sent[u]) :
          IsDiscoveryOrCall(sent[u][k]) =>
             \E j \in 1..(k - 1) : sent[u][j].method = "initialize"

\* C15: a failure to send the initialized notification never escalates:
\* initialize returns the result of the initialize request whether or not
\* _notify raised, and main goes on to tools_list; the only exception that
\* ends the session afterwards is the one of tools_list itself.
C15_NotifyFailureSwallowed ==
    notified # "none" =>
       /\ init_res = init_reply
       /\ sessPc \in {"listing", "ready", "raised"}
       /\ sessPc = "raised" => listed.state = "raised"

\* _notify raised, and afterwards the tools were listed and a tool called.
C15_Witness ==
    /\ notified = "raised"
    /\ init_res = 7
    /\ listed.state = "ok"
    /\ toolCalls = 1

(***************************************************************************)
(* Properties of the catalog and of the chat loop (SpecChat).              *)
(***************************************************************************)
\* The (endpoint, tool name) pairs of a snapshot, endpoint by endpoint in
\* the order of the snapshot and tool by tool in the order listed.
RECURSIVE PairsFrom(_, _)
PairsFrom(m, idx) ==
    IF idx > Len(m.keys) THEN << >>
    ELSE LET u == m.keys[idx] IN
         [t \in 1..Len(m.val[u].tools) |->
             [url |-> u, tool |-> m.val[u].tools[t].name]]
         \o PairsFrom(m, idx + 1)

CatalogBuilt == chatPc # "start"

\* C11: for one registry snapshot two distinct (endpoint, tool name) pairs
\* never get the same identifier, and resolving any identifier of the
\* catalog the way chat_with_tools does gives back the endpoint and the
\* tool name it was built from, also for a tool name shared by two
\* endpoints and for a tool name that contains underscores.
C11_IdentifierResolvesToItsPair ==
    CatalogBuilt =>
       LET pairs == PairsFrom(snapshot, 1) IN
       /\ Len(chat_tools) = Len(pairs)
       /\ \A k \in 1..Len(chat_tools) :
             resolve(chat_tools[k].name, snapshot) =
                [kind |-> "ok", url |-> pairs[k].url, tool |-> pairs[k].tool]
       /\ \A k, l \in 1..Len(chat_tools) :
             pairs[k] # pairs[l] => chat_tools[k].name # chat_tools[l].name

\* Two endpoints both expose search and roll_dice, and the call of the
\* second endpoint's roll_dice went to the second endpoint.
C11_Witness ==
    /\ Len(snapshot.keys) = 2
    /\ Len(chat_tools) = 4
    /\ \E n \in 1..Len(dispatched) :
          /\ dispatched[n].ix > call_base
          /\ tool_calls[dispatched[n].ix - call_base].name =
                function_name(2, ToolRoll.name)
          /\ dispatched[n].url = snapshot.keys[2]
          /\ dispatched[n].tool = ToolRoll.name

IsListed(name) == \E k \in 1..Len(chat_tools) : chat_tools[k].name = name

\* C12: with a snapshot in which some endpoints have error entries the
\* catalog lists exactly the tools of the endpoints without error, and a
\* call to a listed identifier is dispatched to the endpoint that owns the
\* tool, under the tool's own name.
C12_FailedEndpointsLeaveOthersAlone ==
    CatalogBuilt =>
       /\ { chat_tools[k].name : k \in 1..Len(chat_tools) } =
             UNION { { function_name(i, snapshot.val[snapshot.keys[i]].tools[t].name) :
                          t \in 1..Len(snapshot.val[snapshot.keys[i]].tools) } :
                       i \in { j \in 1..Len(snapshot.keys) :
                                  ~snapshot.val[snapshot.keys[j]].failed } }
       /\ \A ix \in 1..(call_ix - 1) :
             (IsListed(tool_calls[ix].name) /\ tool_calls[ix].argsOk) =>
                \E n \in 1..Len(dispatched) : dispatched[n].ix = call_base + ix
       /\ \A n \in 1..Len(dispatched) :
             LET d == dispatched[n] IN
             (d.ix > call_base /\ IsListed(tool_calls[d.ix - call_base].name)) =>
                /\ ~snapshot.val[d.url].failed
                /\ \E i \in 1..Len(snapshot.keys) :
                   \E t \in 1..Len(snapshot.val[d.url].tools) :
                      /\ snapshot.keys[i] = d.url
                      /\ snapshot.val[d.url].tools[t].name = d.tool
                      /\ tool_calls[d.ix - call_base].name = function_name(i, d.tool)

\* The first endpoint of the snapshot failed discovery; a tool of the
\* second one was called and the call went to the second endpoint.
C12_Witness ==
    /\ Len(snapshot.keys) = 2
    /\ snapshot.val[snapshot.keys[1]].failed
    /\ ~snapshot.val[snapshot.keys[2]].failed
    /\ \E n \in 1..Len(dispatched) :
          /\ dispatched[n].url = snapshot.keys[2]
          /\ dispatched[n].tool = ToolRoll.name
    /\ chatPc = "returned"

(***************************************************************************)
(* Properties of the orchestration loops (SpecAgent, SpecChat).            *)
(***************************************************************************)
ToolEntriesFor(history, id) ==
    { j \in 1..Len(history) : history[j].role = "tool" /\ history[j].id = id }

EveryCallAnswered(history) ==
    \A m \in 1..Len(history) : \A c \in 1..Len(history[m].calls) :
       Cardinality({ j \in ToolEntriesFor(history, history[m].calls[c]) : j > m }) = 1

\* C18: in every orchestration loop each call requested by an LLM reply has
\* exactly one tool entry carrying its id before the next LLM request is
\* sent, whatever the call's outcome; so every LLM request is sent with a
\* transcript in which every requested call has its tool entry.
C18_EveryRequestedCallAnswered ==
    /\ \A n \in 1..Len(llm_sent) : EveryCallAnswered(llm_sent[n])
    /\ \A n \in 1..Len(ollama_sent) : EveryCallAnswered(ollama_sent[n])

\* The ids of the tool entries of a transcript, in transcript order.
RECURSIVE ToolEntryIds(_)
ToolEntryIds(history) ==
    IF history = << >> THEN << >>
    ELSE (IF Head(history).role = "tool" THEN <<Head(history).id>> ELSE << >>)
         \o ToolEntryIds(Tail(history))

Increasing(ids) == \A k, l \in 1..Len(ids) : k < l => ids[k] < ids[l]

\* C19: the calls of one LLM reply are dispatched one at a time in the
\* order requested, each completing before the next is dispatched, and
\* their tool entries are in the transcript in that order; there is never
\* more than one outstanding request during tool execution.
C19_CallsRunInRequestedOrder ==
    /\ Len(in_flight) <= 1
    /\ Increasing([n \in 1..Len(dispatched) |-> dispatched[n].ix])
    /\ Increasing(ToolEntryIds(conversation_history))
    /\ \A n \in 1..Len(dispatched) :
          dispatched[n].ix > reset_calls =>
          Cardinality(ToolEntriesFor(conversation_history, dispatched[n].ix)) =
             IF \E f \in 1..Len(in_flight) : in_flight[f] = dispatched[n].ix
             THEN 0 ELSE 1
    /\ \A f \in 1..Len(in_flight) :
          in_flight[f] = dispatched[Len(dispatched)].ix
    /\ Increasing([n \in 1..Len(executed) |-> executed[n].id])
    /\ Increasing(ToolEntryIds(messages))
    /\ \A n \in 1..Len(executed) :
          Cardinality(ToolEntriesFor(messages, executed[n].id)) =
             IF n = Len(executed) /\ agPc \in {"in_call", "crashed"}
                /\ (agPc = "crashed" => call_failures # << >>)
             THEN 0 ELSE 1

\* Two calls of one reply were dispatched, to two endpoints, and both have
\* their entries, the first call's first.
C19_Witness ==
    /\ Len(dispatched) = 2
    /\ dispatched[1].url # dispatched[2].url
    /\ in_flight = << >>
    /\ ToolEntryIds(conversation_history) = <<1, 2>>

\* C20: a remote error reply or a transport failure during a tool call does
\* not leave the loop: it becomes one error-bearing tool entry for that
\* call, the remaining calls are still executed, and the LLM is asked
\* again.
C20_CallFailureBecomesToolEntry ==
    /\ \A n \in 1..Len(dispatched) :
          (/\ dispatched[n].ix > reset_calls
           /\ \A f \in 1..Len(in_flight) : in_flight[f] # dispatched[n].ix) =>
             Cardinality(ToolEntriesFor(conversation_history, dispatched[n].ix)) = 1
    /\ \A n \in 1..Len(call_failures) :
          /\ agPc # "crashed"
          /\ Cardinality(ToolEntriesFor(messages, call_failures[n])) = 1

(***************************************************************************)
(* Properties of a turn: arguments, termination, the requests to the LLM.  *)
(***************************************************************************)
\* C21: an argument payload that is not JSON does not end the call or the
\* loop; the call goes on with an empty argument object.  So neither loop
\* stops at a call because its arguments did not parse: chat_with_tools
\* does not return from inside the loop at such a call, and main of
\* agent.py is not left at such a call unless the tool call itself failed.
C21_UnparsableArgumentsGoOn ==
    /\ (chatPc = "aborted" /\ call_ix <= Len(tool_calls)) =>
          tool_calls[call_ix].argsOk
    /\ (agPc = "crashed" /\ ag_ix <= Len(agent_calls) /\ call_failures = << >>) =>
          agent_calls[ag_ix].args # "badjson"
    /\ \A n \in 1..Len(executed) : \A k \in 1..Len(agent_calls) :
          (agent_calls[k].id = executed[n].id /\ agent_calls[k].args = "badjson"
           /\ agent_calls[k].fn # "sum_dice") =>
             executed[n].rolls = PyNone

Last(q) == q[Len(q)]

\* C22: the loop ends with a terminal output only after an LLM reply that
\* carries no calls, and the output is the text of that reply (when the
\* reply has a text); after a reply that carries calls the loop does not
\* end, it runs the calls and asks the LLM again.  Runs that end because
\* the LLM request itself failed are not meant.
C22_DoneOnlyAfterReplyWithoutCalls ==
    /\ (chatPc \in {"returned", "aborted"} /\ Last(llm_replies).ok) =>
          /\ Last(llm_replies).calls = 0
          /\ Last(llm_replies).content # ContentEmpty =>
                chat_output = Output(Last(llm_replies).content)
    /\ agPc = "done" =>
          /\ Last(ollama_calls).ok
          /\ Last(messages).role = "assistant"
          /\ Last(messages).calls = << >>
          /\ ag_ix > Len(agent_calls)

\* The transcript `before` is all in the request, in its order (the
\* request may begin with a system message put first).
CarriesAll(request, before) ==
    \E k \in 0..1 :
       /\ k + Len(before) <= Len(request)
       /\ SubSeq(request, k + 1, k + Len(before)) = before

\* The reply of the request is the one message added to it.
ReplyAppended(request, after) ==
    /\ Len(after) = Len(request) + 1
    /\ SubSeq(after, 1, Len(request)) = request
    /\ Last(after).role = "assistant"

\* C23: every request to the LLM, the first of a turn and each one after
\* tool execution, carries the whole transcript and the current tool
\* catalog, and the reply is appended to the transcript before anything
\* else is done with it.
C23_RequestsCarryTranscriptAndCatalog ==
    [][ /\ Len(llm_sent') > Len(llm_sent) =>
             /\ CarriesAll(Last(llm_sent'), conversation_history)
             /\ Last(llm_tools').tools = chat_tools'
             /\ Last(llm_replies').ok =>
                   ReplyAppended(Last(llm_sent'), conversation_history')
        /\ Len(ollama_sent') > Len(ollama_sent) =>
             /\ Last(ollama_sent') = messages
             /\ Last(ollama_calls').tools = DICE_TOOLS_SCHEMA
             /\ Last(ollama_calls').ok => ReplyAppended(messages, messages')
      ]_vars

(***************************************************************************)
(* Properties of the argument-repair cache in the loop (SpecAgent).        *)
(***************************************************************************)
\* The lists of integers, of the sizes a cache has here, of which the tool
\* output is a display.
RollsDisplayedBy(v) ==
    { l \in { PyList(items) : items \in SeqsUpTo(Elements, MaxCache) } :
         /\ HoldsIntegers(l)
         /\ v.t = "str"
         /\ \/ v.items = ListText(l.items)
            \/ l.items # << >> /\ v.items = ListTextTrailingComma(l.items) }

\* C24: the cache changes only when a roll_dice call has returned a list
\* of integers, and it is then that list; a roll_dice call that returns one
\* always leaves the cache equal to it.  Every other step of a run (another
\* tool's call, a roll_dice output that is no list of integers, a failed or
\* rejected call, an LLM turn) leaves the cache as it was.
C24_CacheFollowsRollDice ==
    [][ runs' = runs =>
          /\ rolls_memory' # rolls_memory =>
                /\ agPc = "in_call"
                /\ agPc' = "tools"
                /\ agent_calls[ag_ix].fn = "roll_dice"
                /\ Len(outs') = Len(outs) + 1
                /\ rolls_memory' \in RollsDisplayedBy(Last(outs').out)
          /\ (/\ Len(outs') > Len(outs)
              /\ Last(outs').fn = "roll_dice"
              /\ RollsDisplayedBy(Last(outs').out) # {}) =>
                rolls_memory' \in RollsDisplayedBy(Last(outs').out)
      ]_vars

\* roll_dice returned [2], which was remembered; then sum_dice returned the
\* text of a list and the cache still holds [2].
C24_Witness ==
    /\ Len(outs) = 2
    /\ outs[1].fn = "roll_dice"
    /\ outs[1].out = PyStr(ListText(<<El("int", 2)>>))
    /\ outs[2].fn = "sum_dice"
    /\ outs[2].out = PyStr(ListText(<< >>))
    /\ rolls_memory = PyList(<<El("int", 2)>>)

\* The positions in `outs` of the roll_dice calls that returned a list of
\* integers, and the list the latest of them returned.
Rolled == { n \in 1..Len(outs) :
               outs[n].fn = "roll_dice" /\ RollsDisplayedBy(outs[n].out) # {} }
LatestRolls ==
    CHOOSE l \in RollsDisplayedBy(
                    outs[CHOOSE n \in Rolled : \A m \in Rolled : m <= n].out) :
       TRUE

\* The call is a sum_dice call whose arguments (an object, or no JSON) have
\* no usable rolls: none, or a value that is no list of integers and no
\* display of one.
SumWithoutRolls(call) ==
    /\ call.fn = "sum_dice"
    /\ call.args # "nondict"
    /\ \/ call.args = "badjson"
       \/ /\ ~HoldsIntegers(call.rolls)
          /\ ListsDisplayedBy(call.rolls) = {}

\* The step handles the call, with the effect that it is sent to the
\* server with these rolls.
DispatchedWith(call, rolls) ==
    /\ agPc' = "in_call"
    /\ Len(executed') = Len(executed) + 1
    /\ Last(executed') = [id |-> call.id, fn |-> call.fn, rolls |-> rolls]

\* When the run is over the tool entries of the calls that returned are in
\* the transcript in the order the calls were made, and the transcript
\* ends with one assistant message without calls.
EndsWithOneAnswer ==
    agPc = "done" =>
       /\ Last(messages).role = "assistant"
       /\ Last(messages).calls = << >>
       /\ ~(/\ messages[Len(messages) - 1].role = "assistant"
            /\ messages[Len(messages) - 1].calls = << >>)
       /\ \A m, n \in 1..Len(outs) :
             m < n =>
                \E i, j \in 1..Len(messages) :
                   /\ i < j
                   /\ messages[i].role = "tool" /\ messages[i].id = outs[m].id
                   /\ messages[j].role = "tool" /\ messages[j].id = outs[n].id

C26_DispatchedRollsFitSchema ==
    \A n \in 1..Len(executed) :
       executed[n].fn = "sum_dice" =>
          /\ executed[n].rolls.t = "list"
          /\ executed[n].rolls.items # << >>
          /\ \A i \in 1..Len(executed[n].rolls.items) :
                executed[n].rolls.items[i].k = "int"

\* C27: a failed request to the LLM ends the run of the loop: nothing more
\* is sent for that turn, neither to the LLM nor to a tool, and the caller
\* gets a failure, which it can tell from an answer: not a returned text
\* like the text of an answer.
C27_LlmFailureEndsRunAsFailure ==
    /\ (llm_replies # << >> /\ ~Last(llm_replies).ok) =>
          /\ chatPc = "aborted"
          /\ in_flight = << >>
          /\ chat_output.channel # "return"
    /\ (ollama_calls # << >> /\ ~Last(ollama_calls).ok) =>
          agPc = "crashed"

(***************************************************************************)
(* Properties of the transports and of the sessions' lifetime.             *)
(***************************************************************************)
\* The requests written for tool calls on the pipe, and those posted for
\* tool calls over HTTP.
PipeCallRequests ==
    { i \in 1..Len(wire) :
         wire[i].kind = "request" /\ wire[i].method \in {"tools/call", "direct"} }
HttpCallRequests ==
    UNION { { <<u, i>> : i \in { j \in 1..Len(sent[u]) :
                                    sent[u][j].method = "tools/call" } } :
            u \in Urls }

\* C28: the transports do not retry: for every tool call made, on the pipe
\* (tools_call) or over HTTP (call_tool), at most one request goes to the
\* server, whether the call succeeds or fails; and a failed HTTP call
\* leaves the session table as it was.
C28_OneRequestPerToolCall ==
    /\ [](Cardinality(PipeCallRequests) <= toolCalls)
    /\ [](Cardinality(HttpCallRequests) <= calls)
    /\ [][(calls' > calls /\ called'.raised /\ variant = "llm") =>
             sessions' = sessions]_vars

\* C29: after cleanup every HTTP connection that was opened during the
\* registry build is closed and the session table is empty, whatever the
\* list of configured endpoints (also one that names a URL twice); and a
\* call_tool made after cleanup is refused with an error and posts nothing.
C29_CleanupClosesEveryConnection ==
    /\ []((cleaned /\ variant = "llm") =>
             /\ sessions.keys = << >>
             /\ \A c \in 1..clients : c \in closed)
    /\ [][(cleaned /\ variant = "llm" /\ calls' > calls) =>
             /\ called'.raised
             /\ ~called'.posted
             /\ sent' = sent]_vars

\* The positions of a request that hold a message of that role.
OfRole(request, role) == { j \in 1..Len(request) : request[j].role = role }

\* Nothing in the request was written before the last reset: it begins
\* with the one system message and a user message of a turn after the
\* reset, its user messages are of turns after the reset, the calls its
\* messages ask for and answer were asked for after the reset, and it holds
\* fewer closing assistant messages than user messages.
OnlySinceReset(request) ==
    /\ Len(request) >= 2
    /\ OfRole(request, "system") = {1}
    /\ request[2].role = "user"
    /\ \A j \in OfRole(request, "user") : request[j].id > reset_turn
    /\ \A j \in OfRole(request, "tool") : request[j].id > reset_calls
    /\ \A j \in OfRole(request, "assistant") :
          \A c \in 1..Len(request[j].calls) : request[j].calls[c] > reset_calls
    /\ Cardinality({ j \in OfRole(request, "assistant") : request[j].calls = << >> })
          < Cardinality(OfRole(request, "user"))

\* C30: conversation state does not pass from one session to the next:
\* reset_conversation leaves the transcript empty, no request sent to the
\* LLM after a reset holds a message that was added before it, and a new
\* run of the agent begins without the cached rolls of the run before.
C30_ResetStartsAfresh ==
    /\ [][reset_turn' # reset_turn => conversation_history' = << >>]_vars
    /\ [][Len(llm_sent') > Len(llm_sent) => OnlySinceReset(Last(llm_sent'))]_vars
    /\ [][runs' > runs =>
             /\ rolls_memory' = PyNone
             /\ Len(messages') = 2
             /\ OfRole(messages', "tool") = {}]_vars

\* A turn with a tool call was followed by a reset, and the request of the
\* next turn holds the system message and the new user message only.
C30_Witness ==
    /\ turn = 2
    /\ reset_turn = 1
    /\ reset_calls = 1
    /\ Len(dispatched) = 1
    /\ Len(llm_sent) = 3
    /\ OfRole(llm_sent[2], "tool") # {}
    /\ llm_sent[3] = <<Msg("system", 0, ContentText, << >>),
                       Msg("user", 2, ContentText, << >>)>>

(***************************************************************************)
(* Properties of the catalog entries (SpecChat).                           *)
(***************************************************************************)
\* The tools of a snapshot with the 1-based index of their endpoint,
\* endpoint by endpoint and tool by tool.
RECURSIVE ToolsFrom(_, _)
ToolsFrom(m, idx) ==
    IF idx > Len(m.keys) THEN << >>
    ELSE LET tools == m.val[m.keys[idx]].tools IN
         [t \in 1..Len(tools) |-> [idx |-> idx, tool |-> tools[t]]]
         \o ToolsFrom(m, idx + 1)

\* One entry per discovered tool, in the order of the snapshot, named and
\* described after its tool and its endpoint's index.
OneEntryPerTool(discovered) ==
    /\ Len(chat_tools) = Len(discovered)
    /\ \A k \in 1..Len(chat_tools) :
          /\ chat_tools[k].name =
                function_name(discovered[k].idx, discovered[k].tool.name)
          /\ discovered[k].tool.hasDescription =>
                chat_tools[k].description =
                   server_tag(discovered[k].idx)
                      \o discovered[k].tool.description

\* C31: create_openai_tools produces exactly one catalog entry per
\* discovered tool, in registry order then tool order; the entry's
\* parameters are the tool's discovered input schema unchanged (an empty
\* object schema only when the tool declares none) and its description is
\* the tool's description prefixed with the tag of its server index.
C31_ParametersAreDeclaredSchema ==
    CatalogBuilt =>
       LET discovered == ToolsFrom(snapshot, 1) IN
       /\ OneEntryPerTool(discovered)
       /\ \A k \in 1..Len(chat_tools) :
             chat_tools[k].parameters =
                IF discovered[k].tool.hasInputSchema
                THEN discovered[k].tool.inputSchema
                ELSE EmptyObjectSchema

\* C31, amended: as above, but the parameters are the empty object schema
\* also when the tool declares a schema that is an object without keys.
C31_ParametersAreDeclaredSchemaUnlessEmpty ==
    CatalogBuilt =>
       LET discovered == ToolsFrom(snapshot, 1) IN
       /\ OneEntryPerTool(discovered)
       /\ \A k \in 1..Len(chat_tools) :
             chat_tools[k].parameters =
                IF /\ discovered[k].tool.hasInputSchema
                   /\ discovered[k].tool.inputSchema # EmptyDictSchema
                THEN discovered[k].tool.inputSchema
                ELSE EmptyObjectSchema

\* The catalog of two endpoints: search with its schema and roll_dice with
\* {} from the first, ping without a schema from the second.
C31_Witness ==
    /\ CatalogBuilt
    /\ Len(chat_tools) = 3
    /\ chat_tools[1].parameters = QuerySchema
    /\ chat_tools[2].parameters = EmptyObjectSchema
    /\ chat_tools[3].name = function_name(2, ToolPing.name)
    /\ chat_tools[3].parameters = EmptyObjectSchema

(***************************************************************************)
(* Properties of the hotel server (SpecHotel).                             *)
(***************************************************************************)
\* Two periods overlap unless one's check_out is on or before the other's
\* check_in, the dates read as days.
Overlap(x, y) ==
    ~(day_of(x.check_out) <= day_of(y.check_in)
      \/ day_of(y.check_out) <= day_of(x.check_in))

ActiveOf(room_id) ==
    { i \in 1..Len(reservations) :
         reservations[i].room_id = room_id /\ reservations[i].status = "active" }

\* Thread t ends its call in this step.
Ends(t) ==
    /\ hcalls[t].pc \in {"waiting", "locked", "checked"}
    /\ hcalls'[t].pc \in {"returned", "rejected"}

FreeRoomNumbers ==
    { rooms[r].room_number : r \in { q \in DOMAIN rooms : ActiveOf(q) = {} } }

\* C33: after every completed book_room, cancel_reservation or checkout
\* each room's status is 'occupied' exactly when the room has at least one
\* active reservation and 'available' otherwise, so
\* list_rooms(available_only=True) returns exactly the rooms with no
\* active reservation.
C33_StatusFollowsActiveReservations ==
    /\ [](\A r \in DOMAIN rooms :
             rooms[r].status =
                IF ActiveOf(r) # {} THEN "occupied" ELSE "available")
    /\ [][\A t \in Threads :
             (/\ hcalls[t].op = "list_rooms"
              /\ hcalls[t].a.available_only
              /\ Ends(t))
             => /\ hcalls'[t].pc = "returned"
                /\ Range(hcalls'[t].rows) = FreeRoomNumbers
                /\ Len(hcalls'[t].rows) = Cardinality(FreeRoomNumbers)]_vars

\* A room was booked and its reservation canceled, and a later
\* list_rooms(available_only=True) returned every room again.
C33_Witness ==
    /\ Len(reservations) = 1
    /\ reservations[1].status = "canceled"
    /\ rooms[reservations[1].room_id].status = "available"
    /\ \E t \in Threads :
          /\ hcalls[t].op = "list_rooms"
          /\ hcalls[t].pc = "returned"
          /\ Len(hcalls[t].rows) = Len(SeedRooms)

\* C34: a reservation's status only ever moves from 'active' to 'canceled'
\* (by cancel_reservation) or from 'active' to 'checked_out' (by checkout);
\* 'canceled' and 'checked_out' are final, and cancel_reservation or
\* checkout on a reservation that is missing or not active is rejected
\* with an error and changes neither the reservation nor any room status.
C34_StatusMovesOnlyFromActive ==
    /\ [][\A i \in 1..Len(reservations) :
             /\ Len(reservations') >= Len(reservations)
             /\ reservations'[i].status # reservations[i].status =>
                   /\ reservations[i].status = "active"
                   /\ \E t \in Threads :
                         /\ Ends(t)
                         /\ hcalls[t].a.reservation_id = i
                         /\ hcalls[t].op \in {"cancel_reservation", "checkout"}
                         /\ reservations'[i].status = ended_status(hcalls[t].op)
                         /\ ended_status(hcalls[t].op) =
                               IF hcalls[t].op = "checkout"
                               THEN "checked_out" ELSE "canceled"]_vars
    /\ [][\A t \in Threads :
             (/\ hcalls[t].op \in {"cancel_reservation", "checkout"}
              /\ Ends(t)
              /\ \/ hcalls[t].a.reservation_id \notin 1..Len(reservations)
                 \/ reservations[hcalls[t].a.reservation_id].status # "active")
             => /\ hcalls'[t].pc = "rejected"
                /\ hcalls'[t].res \in {"not_found", "not_active"}
                /\ reservations' = reservations
                /\ rooms' = rooms]_vars

\* A canceled reservation was given to checkout, which was rejected.
C34_Witness ==
    /\ Len(reservations) = 1
    /\ reservations[1].status = "canceled"
    /\ \E t \in Threads :
          /\ hcalls[t].op = "checkout"
          /\ hcalls[t].pc = "rejected"
          /\ hcalls[t].res = "not_active"

\* The reasons for which book_room raises.
BookRejections ==
    {"date_order", "age", "num_guests", "no_room", "capacity", "overlap"}

\* The room of a call is unknown, too small for its guests, or has an
\* active reservation that overlaps the call's period.
MustBeRejected(a) ==
    LET known == { r \in DOMAIN rooms : rooms[r].room_number = a.room_number }
    IN  \/ known = {}
        \/ \E r \in known :
              \/ a.num_guests > rooms[r].capacity
              \/ \E i \in ActiveOf(r) : Overlap(reservations[i], a)

\* C40: a book_room call that is rejected (check_in not before check_out,
\* non-positive age or num_guests, unknown room, num_guests above the
\* room's capacity, overlapping active reservation) leaves the rooms,
\* users and reservations tables exactly as they were: no user row and no
\* reservation row is created and no room status changes.
C40_RejectedBookingLeavesTables ==
    /\ [][\A t \in Threads :
             (/\ hcalls'[t] # hcalls[t]
              /\ hcalls'[t].op = "book_room"
              /\ hcalls'[t].pc = "rejected")
             => /\ hcalls'[t].res \in BookRejections
                /\ <<rooms, users, reservations>>' =
                      <<rooms, users, reservations>>]_vars
    /\ [][\A t \in Threads :
             (/\ hcalls[t].op = "book_room"
              /\ Ends(t)
              /\ MustBeRejected(hcalls[t].a))
             => /\ hcalls'[t].pc = "rejected"
                /\ <<rooms, users, reservations>>' =
                      <<rooms, users, reservations>>]_vars

\* With a reservation and its user in the tables, one book_room was
\* rejected for its guests and another for its dates.
C40_Witness ==
    /\ Len(reservations) = 1
    /\ Len(users) = 1
    /\ rooms[reservations[1].room_id].status = "occupied"
    /\ \E t, w \in Threads :
          /\ hcalls[t].op = "book_room"
          /\ hcalls[t].res = "capacity"
          /\ hcalls[w].op = "book_room"
          /\ hcalls[w].res = "date_order"

(***************************************************************************)
(* Termination of the loop of agent.py (SpecAgentFair).                    *)
(***************************************************************************)
\* C35: the loop of main reaches DONE in every fair run in which each LLM
\* request and each tool call returns (nothing raises) and the LLM
\* eventually sends a reply that requests no calls; the loop ends on
\* nothing but that reply: a run is done only by a step in which the LLM
\* answered without calls, and after a reply with calls, however many
\* went before, the calls are handled and the LLM is asked again.
C35_DoneOnReplyWithoutCalls ==
    /\ ([](agPc # "crashed")
           /\ <>(ollama_calls # << >> /\ Last(ollama_calls).ok
                    /\ Last(ollama_calls).calls = 0))
          => <>(agPc = "done")
    /\ [](agPc # "crashed") => <>(agPc = "done")
    /\ [][(agPc' = "done" /\ agPc # "done") =>
             /\ Len(ollama_calls') = Len(ollama_calls) + 1
             /\ Last(ollama_calls').ok
             /\ Last(ollama_calls').calls = 0]_vars
    /\ [][(Len(ollama_calls') = Len(ollama_calls) + 1
             /\ Last(ollama_calls').ok /\ Last(ollama_calls').calls > 0)
          => agPc' = "tools"]_vars

\* The run is done after two replies that asked for a call each, one of
\* them answered with the validation entry, and a third reply without
\* calls.
C35_Witness ==
    /\ agPc = "done"
    /\ Len(ollama_calls) = 3
    /\ ollama_calls[1].calls = 1
    /\ ollama_calls[2].calls = 1
    /\ ollama_calls[3].calls = 0
    /\ repair_failed # << >>

(***************************************************************************)
(* The attempts of tools_list (SpecSession).                               *)
(***************************************************************************)
IsListRequest(m) == m.method \in {"tools/list", "list_tools"}
GivesTools(res) == CarriesToolsShape(res.shape, res.hasTools)
Failed(k) == list_log[k].shape = "exception"

\* C36: tools_list sends its attempts in the fixed order (tools/list {},
\* tools/list {cursor: null}, list_tools {}) and stops at the first attempt
\* whose result is an object with a tools key or a bare array, returning
\* those tools without sending the later attempts; when no attempt gives
\* such a result it raises the error of the last attempt that failed, or
\* 'Unable to list tools' when none of them failed.
C36_AttemptsInOrderUntilTools ==
    LET requests == SelectSeq(wire, IsListRequest)
        order == << <<"tools/list", "{}">>, <<"tools/list", "{cursor: null}">>,
                    <<"list_tools", "{}">> >>
        n == Len(list_log)
    IN  /\ Len(requests) = n
        /\ n <= Len(order)
        /\ \A k \in 1..n :
              /\ requests[k].kind = "request"
              /\ <<requests[k].method, requests[k].params>> = order[k]
              /\ k < n => ~GivesTools(list_log[k])
        /\ listed.state = "ok" <=> (n > 0 /\ GivesTools(list_log[n]))
        /\ listed.state = "ok" => listed.tools = list_log[n].tools
        /\ listed.state = "raised" <=>
              (n = Len(order) /\ ~GivesTools(list_log[n]))
        /\ listed.state = "raised" =>
              IF \E k \in 1..n : Failed(k)
              THEN /\ Failed(listed.error)
                   /\ \A k \in 1..n : Failed(k) => k <= listed.error
              ELSE listed.error = UnableToListTools

\* The first two attempts raised and the third returned a number:
\* tools_list raised the error of the second attempt.
C36_Witness ==
    /\ Len(list_log) = 3
    /\ Failed(1)
    /\ Failed(2)
    /\ list_log[3].shape = "number"
    /\ listed.state = "raised"
    /\ listed.error = 2

(***************************************************************************)
(* The transcript of OpenAIMCPIntegration across calls (SpecChat).         *)
(***************************************************************************)
SystemMessages ==
    { j \in 1..Len(conversation_history) :
         conversation_history[j].role = "system" }

\* C37: after any sequence of chat_with_tools and reset_conversation calls
\* the conversation history holds at most one system message, and when it
\* holds one it is the first message of the history.
C37_OneSystemMessageFirst ==
    /\ Cardinality(SystemMessages) <= 1
    /\ SystemMessages # {} => SystemMessages = {1}

\* Two chat_with_tools calls without a reset between them: the transcript
\* holds the user messages of both and one system message.
C37_Witness ==
    /\ turn = 2
    /\ reset_turn = 0
    /\ reset_calls = 0
    /\ Cardinality({ j \in 1..Len(conversation_history) :
                        conversation_history[j].role = "user" }) = 2
    /\ SystemMessages = {1}

\* The messages the call in progress, or the one that ended last, has put
\* into the transcript: its user message, its assistant message with calls
\* and the entries of its calls.
OfThisCall(m) ==
    \/ m.role = "user" /\ m.id = turn
    \/ m.role = "assistant" /\ \E k \in 1..Len(m.calls) : m.calls[k] > call_base
    \/ m.role = "tool" /\ m.id > call_base

\* C38: when chat_with_tools ends with an error (an LLM request fails, or
\* a requested call's argument text or identifier cannot be parsed) the
\* conversation history is the same as it was before the call: the failed
\* turn leaves no user message, no assistant message with unanswered calls
\* and no tool-result entry behind.
C38_FailedCallLeavesNoMessage ==
    (chatPc = "aborted" /\ reset_turn < turn) =>
       \A j \in 1..Len(conversation_history) :
          ~OfThisCall(conversation_history[j])

(***************************************************************************)
(* The tools returned by wrap_sum_and_track_rolls (SpecWrap).              *)
(***************************************************************************)
\* C39: each tool returned by wrap_sum_and_track_rolls, when invoked,
\* calls the underlying MCP tool of the same name (the roll_dice wrapper
\* calls roll_dice, the sum_dice wrapper calls sum_dice, a pass-through
\* wrapper calls its own tool), for every order and content of the input
\* tool list; an invocation that ends in the validation text makes no
\* call.
C39_WrapperCallsItsOwnTool ==
    \A n \in 1..Len(invoked) :
       invoked[n].called # NoTool => invoked[n].called = invoked[n].wrapper

====
